---- MODULE Spec2Model ----
(***************************************************************************)
(* A model of the scoring core of the AI training demo service:            *)
(*   - AIService  (src/src/services/aiService.ts): the text analyzers and  *)
(*     the processAnalysis dispatcher;                                     *)
(*   - MLService  (src/src/services/mlService.ts): the scorers and the     *)
(*     makePrediction dispatcher;                                          *)
(*   - the /analyze, /predict, /batch-analyze and /batch-predict handlers  *)
(*     (src/src/routes/ai.ts, src/src/routes/ml.ts).                       *)
(*                                                                         *)
(* Conventions.                                                            *)
(*   A JavaScript string is a sequence of one-character strings.           *)
(*   A JavaScript number is an integer count of thousandths ("milli"):     *)
(*   0.85 is 850.  Products of two such numbers are in millionths          *)
(*   ("micro").  NaN is the integer NaN below, which no computation of     *)
(*   the model yields as a number.                                         *)
(*   An object is a record; a property that is undefined is a field that   *)
(*   is absent from the record's DOMAIN.                                   *)
(*   A call that throws yields [threw |-> TRUE, error |-> ...], a call     *)
(*   that returns yields [threw |-> FALSE, value |-> ...].                 *)
(***************************************************************************)
EXTENDS Integers, Sequences, FiniteSets, TLC

VARIABLES
  call,       \* EngineSpec: the last direct call of a service and its outcome
  phase,      \* Spec: position of the request handler
  route,      \* Spec: the route of the request being handled
  body,       \* Spec: req.body of the request being handled
  items,      \* Spec: per-index state of the callbacks started by requests.map
  results,    \* Spec: the array Promise.all is filling, by input position
  settled,    \* Spec: indices in the order in which their callbacks settled
  store,      \* Spec: the rows written through prisma, in creation order
  response    \* Spec: the HTTP response sent for the request

vars == <<call, phase, route, body, items, results, settled, store, response>>

engineVars == <<call>>
routeVars == <<phase, route, body, items, results, settled, store, response>>

-----------------------------------------------------------------------------
(* Bounds of the model *)

\* Largest number of pieces concatenated into a text given to analyzeSentiment.
MaxWords == 5
\* Largest number of pieces concatenated into a text given to processAnalysis.
MaxTokens == 3
\* Largest number of features in an input feature vector.
MaxFeatures == 3
\* Largest elapsed time (ms) a Date.now() difference takes.
MaxElapsed == 1
\* Largest number of items in a batch whose items are chosen freely.
MaxBatch == 2
\* The most features of a vector given to a scorer directly
MaxScored == 6
\* The most numbers in a sequence given to calculateMedian or
\* calculatePercentile, the two examples of the specification apart.
MaxNumbers == 4
\* The most items in a list given to calculateHourlyTrends.
MaxHourly == 3
\* The most data points in a list given to calculateTrends.
MaxSamples == 4

-----------------------------------------------------------------------------
(* Numbers *)

NaN == -1000000000

Min(a, b) == IF a < b THEN a ELSE b
Max(a, b) == IF a > b THEN a ELSE b
Abs(a) == IF a < 0 THEN -a ELSE a

\* x rounded to the nearest multiple of unit, halves away from zero
\* (Number.prototype.toFixed followed by parseFloat), counted in units.
RoundDiv(x, unit) ==
  IF x >= 0 THEN (2 * x + unit) \div (2 * unit)
            ELSE -((2 * (-x) + unit) \div (2 * unit))

RECURSIVE SumSeq(_)
SumSeq(s) == IF s = <<>> THEN 0 ELSE Head(s) + SumSeq(Tail(s))

-----------------------------------------------------------------------------
(* Strings *)

UpperCase == <<"A","B","C","D","E","F","G","H","I","J","K","L","M",
               "N","O","P","Q","R","S","T","U","V","W","X","Y","Z">>
LowerCase == <<"a","b","c","d","e","f","g","h","i","j","k","l","m",
               "n","o","p","q","r","s","t","u","v","w","x","y","z">>

toLowerCaseChar(c) ==
  IF \E i \in 1..26 : UpperCase[i] = c
  THEN LowerCase[CHOOSE i \in 1..26 : UpperCase[i] = c]
  ELSE c

\* The least element of a non-empty set of integers.
Least(S) == CHOOSE x \in S : \A y \in S : x <= y
LeastOr(S, none) == IF S = {} THEN none ELSE Least(S)

\* The first index at or after i whose character is in class (is not in
\* class), or Len(s) + 1 when there is none.
firstIn(s, i, class) == LeastOr({k \in i..Len(s) : s[k] \in class}, Len(s) + 1)
firstNotIn(s, i, class) == LeastOr({k \in i..Len(s) : s[k] \notin class}, Len(s) + 1)

\* String.prototype.toLowerCase
toLowerCase(s) == [i \in 1..Len(s) |-> toLowerCaseChar(s[i])]

\* String.prototype.split(sep) for a one-character separator: the pieces
\* between the separators, empty pieces kept; "" splits into [""].
RECURSIVE splitFrom(_, _, _)
splitFrom(s, sep, i) ==
  LET next == firstIn(s, i, {sep})
  IN  IF next > Len(s) THEN <<SubSeq(s, i, Len(s))>>
      ELSE <<SubSeq(s, i, next - 1)>> \o splitFrom(s, sep, next + 1)

split(s, sep) == splitFrom(s, sep, 1)

\* Array.prototype.includes
arrayIncludes(list, x) == \E i \in 1..Len(list) : list[i] = x

\* String.prototype.includes
stringIncludes(s, k) ==
  \E i \in 1..(Len(s) - Len(k) + 1) : SubSeq(s, i, i + Len(k) - 1) = k

RECURSIVE Concat(_)
Concat(ss) == IF ss = <<>> THEN <<>> ELSE Head(ss) \o Concat(Tail(ss))

-----------------------------------------------------------------------------
(* Outcomes of calls *)

Returned(v) == [threw |-> FALSE, value |-> v]
Threw(e) == [threw |-> TRUE, error |-> e]

\* new Error(`${prefix}${detail}`): the message is kept as its two parts
Error(prefix, detail) == [name |-> "Error", message |-> <<prefix, detail>>]
\* The error raised by reading a property of undefined.
TypeError == [name |-> "TypeError"]

-----------------------------------------------------------------------------
(* AIService.analyzeSentiment *)

positiveWords ==
  << <<"g","o","o","d">>,
     <<"g","r","e","a","t">>,
     <<"e","x","c","e","l","l","e","n","t">>,
     <<"a","m","a","z","i","n","g">>,
     <<"w","o","n","d","e","r","f","u","l">>,
     <<"f","a","n","t","a","s","t","i","c">>,
     <<"l","o","v","e">>,
     <<"l","i","k","e">>,
     <<"h","a","p","p","y">>,
     <<"j","o","y">> >>

negativeWords ==
  << <<"b","a","d">>,
     <<"t","e","r","r","i","b","l","e">>,
     <<"a","w","f","u","l">>,
     <<"h","a","t","e">>,
     <<"d","i","s","l","i","k","e">>,
     <<"s","a","d">>,
     <<"a","n","g","r","y">>,
     <<"f","r","u","s","t","r","a","t","e","d">>,
     <<"d","i","s","a","p","p","o","i","n","t","e","d">> >>

\* const words = text.toLowerCase().split(' ')
sentimentWordsOnTab(text) ==
  LET l == toLowerCase(text)
      tabsAsSpaces == [i \in 1..Len(l) |-> IF l[i] = "\t" THEN " " ELSE l[i]]
  IN  split(tabsAsSpaces, " ")
sentimentWords(text) == split(toLowerCase(text), " ")

\* words.forEach(word => { if (positiveWords.includes(word)) positiveScore++; ... })
countIn(words, list) ==
  Cardinality({i \in 1..Len(words) : arrayIncludes(list, words[i])})

\* The confidence of a non-neutral text: Math.min(0.9, 0.5 + |totalScore| * 0.1)
sentimentConfidenceUncapped(totalScore) == 500 + Abs(totalScore) * 100
sentimentConfidence(totalScore) == Min(900, 500 + Abs(totalScore) * 100)

analyzeSentiment(text, dt) ==
  LET words == sentimentWords(text)
      positiveScore == countIn(words, positiveWords)
      negativeScore == countIn(words, negativeWords)
      totalScore == positiveScore - negativeScore
  IN  [ sentiment  |-> IF totalScore > 0 THEN "positive"
                       ELSE IF totalScore < 0 THEN "negative"
                       ELSE "neutral",
        confidence |-> IF totalScore # 0 THEN sentimentConfidence(totalScore)
                       ELSE 600,
        scores     |-> [ positive |-> positiveScore,
                         negative |-> negativeScore,
                         neutral  |-> Len(words) - positiveScore - negativeScore ],
        processingTime |-> dt ]

-----------------------------------------------------------------------------
(* AIService.classifyText *)

categories ==
  << [name |-> "technology", keywords |->
        << <<"a","i">>,
           <<"m","a","c","h","i","n","e"," ","l","e","a","r","n","i","n","g">>,
           <<"s","o","f","t","w","a","r","e">>,
           <<"c","o","m","p","u","t","e","r">>,
           <<"p","r","o","g","r","a","m","m","i","n","g">>,
           <<"c","o","d","e">> >>],
     [name |-> "business", keywords |->
        << <<"r","e","v","e","n","u","e">>,
           <<"p","r","o","f","i","t">>,
           <<"m","a","r","k","e","t">>,
           <<"s","a","l","e","s">>,
           <<"c","u","s","t","o","m","e","r">>,
           <<"s","t","r","a","t","e","g","y">> >>],
     [name |-> "science", keywords |->
        << <<"r","e","s","e","a","r","c","h">>,
           <<"s","t","u","d","y">>,
           <<"e","x","p","e","r","i","m","e","n","t">>,
           <<"d","a","t","a">>,
           <<"a","n","a","l","y","s","i","s">>,
           <<"h","y","p","o","t","h","e","s","i","s">> >>],
     [name |-> "entertainment", keywords |->
        << <<"m","o","v","i","e">>,
           <<"m","u","s","i","c">>,
           <<"g","a","m","e">>,
           <<"f","u","n">>,
           <<"e","n","t","e","r","t","a","i","n","m","e","n","t">>,
           <<"s","h","o","w">> >>],
     [name |-> "sports", keywords |->
        << <<"g","a","m","e">>,
           <<"t","e","a","m">>,
           <<"p","l","a","y","e","r">>,
           <<"s","c","o","r","e">>,
           <<"m","a","t","c","h">>,
           <<"c","o","m","p","e","t","i","t","i","o","n">> >>] >>

RECURSIVE keywordOccurrences(_, _)
keywordOccurrences(textLower, keywords) ==
  IF keywords = <<>> THEN 0
  ELSE Cardinality({i \in 1..Len(textLower) :
                      i + Len(Head(keywords)) - 1 <= Len(textLower)
                      /\ SubSeq(textLower, i, i + Len(Head(keywords)) - 1) = Head(keywords)})
       + keywordOccurrences(textLower, Tail(keywords))
\* category.keywords.reduce((acc, keyword) => acc + (textLower.includes(keyword) ? 1 : 0), 0)
keywordScore(textLower, keywords) ==
  Cardinality({k \in 1..Len(keywords) : stringIncludes(textLower, keywords[k])})

categoryScores(text) ==
  LET textLower == toLowerCase(text)
  IN  [c \in 1..Len(categories) |->
         LET score == keywordScore(textLower, categories[c].keywords)
         IN  [ category   |-> categories[c].name,
               score      |-> score,
               confidence |-> Min(950, score * 200 + 100) ]]

RECURSIVE reduceKeepFirst(_, _, _)
reduceKeepFirst(scores, prev, i) ==
  IF i > Len(scores) THEN prev
  ELSE reduceKeepFirst(scores, IF prev.score >= scores[i].score THEN prev ELSE scores[i], i + 1)
\* categoryScores.reduce((prev, current) => (prev.score > current.score) ? prev : current)
RECURSIVE reduceTop(_, _, _)
reduceTop(scores, prev, i) ==
  IF i > Len(scores) THEN prev
  ELSE reduceTop(scores, IF prev.score > scores[i].score THEN prev ELSE scores[i], i + 1)

classifyText(text, dt) ==
  LET allScores == categoryScores(text)
      topCategory == reduceTop(allScores, allScores[1], 2)
  IN  [ category   |-> topCategory.category,
        confidence |-> topCategory.confidence,
        allScores  |-> allScores,
        processingTime |-> dt ]

-----------------------------------------------------------------------------
(* AIService.summarizeText *)

Terminators == {".", "!", "?"}
WhiteSpace == {" ", "\t", "\n", "\r"}

\* String.prototype.split(/[.!?]+/): the pieces between the maximal runs of
\* terminators, empty pieces at either end kept.
RECURSIVE splitSentences(_, _)
splitSentences(s, i) ==
  LET next == firstIn(s, i, Terminators)
  IN  IF next > Len(s) THEN <<SubSeq(s, i, Len(s))>>
      ELSE <<SubSeq(s, i, next - 1)>> \o splitSentences(s, firstNotIn(s, next, Terminators))

\* s.trim().length > 0
nonBlank(s) == \E i \in 1..Len(s) : s[i] \notin WhiteSpace

filterNothing(ss) == ss
\* Array.prototype.filter
RECURSIVE filterNonBlank(_)
filterNonBlank(ss) ==
  IF ss = <<>> THEN <<>>
  ELSE IF nonBlank(Head(ss)) THEN <<Head(ss)>> \o filterNonBlank(Tail(ss))
  ELSE filterNonBlank(Tail(ss))

\* Array.prototype.join
RECURSIVE join(_, _)
join(ss, sep) ==
  IF ss = <<>> THEN <<>>
  ELSE IF Len(ss) = 1 THEN Head(ss)
  ELSE Head(ss) \o sep \o join(Tail(ss), sep)

summaryCountAll(n) == n
\* Math.min(3, Math.max(1, Math.floor(sentences.length * 0.3)))
summaryCount(n) == Min(3, Max(1, (n * 3) \div 10))

\* (summary.length / text.length).toFixed(2), in hundredths
compressionRatio(summaryLength, originalLength) ==
  IF originalLength = 0 THEN "Infinity"
  ELSE RoundDiv(summaryLength * 100, originalLength)

summarizeText(text, maxTokens, dt) ==
  LET sentences == filterNonBlank(splitSentences(text, 1))
      summaryLength == summaryCount(Len(sentences))
      summary == join(SubSeq(sentences, 1, Min(summaryLength, Len(sentences))),
                      <<".", " ">>) \o <<".">>
  IN  [ summary          |-> summary,
        originalLength   |-> Len(text),
        summaryLength    |-> Len(summary),
        compressionRatio |-> compressionRatio(Len(summary), Len(text)),
        processingTime   |-> dt ]

-----------------------------------------------------------------------------
(* AIService.translateText *)

translations ==
  [ es |-> << [english |-> <<"h","e","l","l","o">>, translated |-> <<"h","o","l","a">>],
              [english |-> <<"w","o","r","l","d">>, translated |-> <<"m","u","n","d","o">>],
              [english |-> <<"g","o","o","d">>,     translated |-> <<"b","u","e","n","o">>],
              [english |-> <<"m","o","r","n","i","n","g">>,
               translated |-> <<"m","a","Ã","±","a","n","a">>],
              [english |-> <<"t","h","a","n","k"," ","y","o","u">>,
               translated |-> <<"g","r","a","c","i","a","s">>] >>,
    fr |-> << [english |-> <<"h","e","l","l","o">>,
               translated |-> <<"b","o","n","j","o","u","r">>],
              [english |-> <<"w","o","r","l","d">>, translated |-> <<"m","o","n","d","e">>],
              [english |-> <<"g","o","o","d">>,     translated |-> <<"b","o","n">>],
              [english |-> <<"m","o","r","n","i","n","g">>,
               translated |-> <<"m","a","t","i","n">>],
              [english |-> <<"t","h","a","n","k"," ","y","o","u">>,
               translated |-> <<"m","e","r","c","i">>] >> ]

\* translations[targetLanguage] || {}
langTranslations(targetLanguage) ==
  IF targetLanguage \in DOMAIN translations THEN translations[targetLanguage] ELSE <<>>

replaceFirst(s, english, translated, i) ==
  LET hits == {k \in i..(Len(s) - Len(english) + 1) :
                 toLowerCase(SubSeq(s, k, k + Len(english) - 1)) = english}
      next == Least(hits)
  IN  IF hits = {} THEN SubSeq(s, i, Len(s))
      ELSE SubSeq(s, i, next - 1) \o translated
           \o SubSeq(s, next + Len(english), Len(s))
\* s.replace(new RegExp(english, 'gi'), translated): every occurrence, found
\* left to right without overlap and without regard to case, is replaced.
RECURSIVE replaceAll(_, _, _, _)
replaceAll(s, english, translated, i) ==
  LET hits == {k \in i..(Len(s) - Len(english) + 1) :
                 toLowerCase(SubSeq(s, k, k + Len(english) - 1)) = english}
      next == Least(hits)
  IN  IF hits = {} THEN SubSeq(s, i, Len(s))
      ELSE SubSeq(s, i, next - 1) \o translated
           \o replaceAll(s, english, translated, next + Len(english))

\* Object.entries(langTranslations).forEach(...)
RECURSIVE applyEntries(_, _, _)
applyEntries(s, entries, k) ==
  IF k > Len(entries) THEN s
  ELSE applyEntries(replaceAll(s, entries[k].english, entries[k].translated, 1),
                    entries, k + 1)

translateText(text, targetLanguage, dt) ==
  [ originalText   |-> text,
    translatedText |-> applyEntries(toLowerCase(text), langTranslations(targetLanguage), 1),
    sourceLanguage |-> "en",
    targetLanguage |-> targetLanguage,
    confidence     |-> 850,
    processingTime |-> dt ]

-----------------------------------------------------------------------------
(* AIService.extractEntities *)

Digits == {"0","1","2","3","4","5","6","7","8","9"}
Letters == {UpperCase[i] : i \in 1..26} \cup {LowerCase[i] : i \in 1..26}
\* \w, [A-Za-z0-9._%+-], [A-Za-z0-9.-], [A-Z|a-z] and \s
WordChars == Letters \cup Digits \cup {"_"}
EmailLocalChars == Letters \cup Digits \cup {".", "_", "%", "+", "-"}
EmailDomainChars == Letters \cup Digits \cup {".", "-"}
EmailTldChars == Letters \cup {"|"}
SpaceChars == {" ", "\t", "\n", "\r"}

charIn(s, i, class) == i >= 1 /\ i <= Len(s) /\ s[i] \in class
charIs(s, i, c) == i >= 1 /\ i <= Len(s) /\ s[i] = c
allIn(s, i, j, class) == \A k \in i..j : charIn(s, k, class)

\* \b between s[i-1] and s[i]
wordBoundary(s, i) == charIn(s, i - 1, WordChars) # charIn(s, i, WordChars)

\* The length of the longest run of characters of class that starts at i.
runLength(s, i, class) == IF i > Len(s) THEN 0 ELSE firstNotIn(s, i, class) - i

\* Each xxxEnd(s, i) is the index of the last character of the match the
\* regular expression finds when it is tried at index i, or 0 when it does
\* not match there.  Greedy quantifiers give way from the longest choice down.

\* /\b[A-Za-z0-9._%+-]+@[A-Za-z0-9.-]+\.[A-Z|a-z]{2,}\b/
emailEnd(s, i) ==
  LET local == runLength(s, i, EmailLocalChars)
      at == i + local
      domain == runLength(s, at + 1, EmailDomainChars)
      \* <<d, t>>: a domain of d characters, a dot, a top-level part of t characters
      fits == { p \in (1..domain) \X (2..Len(s)) :
                  /\ charIs(s, at + p[1] + 1, ".")
                  /\ allIn(s, at + p[1] + 2, at + p[1] + 1 + p[2], EmailTldChars)
                  /\ wordBoundary(s, at + p[1] + 2 + p[2]) }
      first == CHOOSE p \in fits :
                 \A q \in fits : q[1] < p[1] \/ (q[1] = p[1] /\ q[2] <= p[2])
  IN  IF wordBoundary(s, i) /\ local >= 1 /\ charIs(s, at, "@") /\ fits # {}
      THEN at + first[1] + 1 + first[2]
      ELSE 0

\* /\b\d{3}-\d{3}-\d{4}\b/
phoneEnd(s, i) ==
  IF /\ wordBoundary(s, i)
     /\ allIn(s, i, i + 2, Digits) /\ charIs(s, i + 3, "-")
     /\ allIn(s, i + 4, i + 6, Digits) /\ charIs(s, i + 7, "-")
     /\ allIn(s, i + 8, i + 11, Digits)
     /\ wordBoundary(s, i + 12)
  THEN i + 11 ELSE 0

\* /\b\d{1,2}\/\d{1,2}\/\d{4}\b/
dateEnd(s, i) ==
  LET fits == { p \in (1..2) \X (1..2) :
                  /\ allIn(s, i, i + p[1] - 1, Digits)
                  /\ charIs(s, i + p[1], "/")
                  /\ allIn(s, i + p[1] + 1, i + p[1] + p[2], Digits)
                  /\ charIs(s, i + p[1] + p[2] + 1, "/")
                  /\ allIn(s, i + p[1] + p[2] + 2, i + p[1] + p[2] + 5, Digits)
                  /\ wordBoundary(s, i + p[1] + p[2] + 6) }
      first == CHOOSE p \in fits :
                 \A q \in fits : q[1] < p[1] \/ (q[1] = p[1] /\ q[2] <= p[2])
  IN  IF wordBoundary(s, i) /\ fits # {}
      THEN i + first[1] + first[2] + 5
      ELSE 0

\* /https?:\/\/[^\s]+/
urlEnd(s, i) ==
  LET scheme == IF charIs(s, i + 4, "s") THEN 5 ELSE 4
      rest == i + scheme + 3
      n == runLength(s, rest, {s[k] : k \in 1..Len(s)} \ SpaceChars)
  IN  IF /\ i + 3 <= Len(s) /\ SubSeq(s, i, i + 3) = <<"h","t","t","p">>
         /\ i + scheme + 2 <= Len(s)
         /\ SubSeq(s, i + scheme, i + scheme + 2) = <<":","/","/">>
         /\ n >= 1
      THEN rest + n - 1 ELSE 0

\* (?:,\d{3})* : the index after the longest chain of groups that starts at i
RECURSIVE thousandsEnd(_, _)
thousandsEnd(s, i) ==
  IF charIs(s, i, ",") /\ allIn(s, i + 1, i + 3, Digits)
  THEN thousandsEnd(s, i + 4) ELSE i

\* /\$\d+(?:,\d{3})*(?:\.\d{2})?/
moneyEnd(s, i) ==
  LET digits == runLength(s, i + 1, Digits)
      afterGroups == thousandsEnd(s, i + 1 + digits)
      cents == charIs(s, afterGroups, ".") /\ allIn(s, afterGroups + 1, afterGroups + 2, Digits)
  IN  IF charIs(s, i, "$") /\ digits >= 1
      THEN (IF cents THEN afterGroups + 3 ELSE afterGroups) - 1
      ELSE 0

\* Object.entries(patterns): the patterns in their order of definition
patternTypes == <<"email", "phone", "date", "url", "money">>

matchEnd(type, s, i) ==
  CASE type = "email" -> emailEnd(s, i)
    [] type = "phone" -> phoneEnd(s, i)
    [] type = "date"  -> dateEnd(s, i)
    [] type = "url"   -> urlEnd(s, i)
    [] type = "money" -> moneyEnd(s, i)

\* The first index at or after from at which the pattern matches, or 0.
firstMatch(type, s, from) == LeastOr({i \in from..Len(s) : matchEnd(type, s, i) > 0}, 0)

\* text.match(pattern) for a pattern with the g flag: the matched substrings,
\* left to right, each search resuming after the previous match.
RECURSIVE matchAll(_, _, _)
matchesFrom(type, s, i, end) ==
  IF i = 0 THEN <<>> ELSE <<SubSeq(s, i, end)>> \o matchAll(type, s, end + 1)
matchesAt(type, s, i) == matchesFrom(type, s, i, IF i = 0 THEN 0 ELSE matchEnd(type, s, i))
matchAll(type, s, from) == matchesAt(type, s, firstMatch(type, s, from))

lastIndexOf(s, m) ==
  LET hits == {i \in 1..(Len(s) - Len(m) + 1) : SubSeq(s, i, i + Len(m) - 1) = m}
  IN  (IF hits = {} THEN 0 ELSE CHOOSE i \in hits : \A j \in hits : j <= i) - 1
\* String.prototype.indexOf: the zero-based index of the first occurrence
indexOf(s, m) ==
  LeastOr({i \in 1..(Len(s) - Len(m) + 1) : SubSeq(s, i, i + Len(m) - 1) = m}, 0) - 1

\* matches.forEach(match => entities.push({...}))
entitiesFor(type, text, matches) ==
  [k \in 1..Len(matches) |->
     [ text       |-> matches[k],
       type       |-> type,
       confidence |-> 900,
       startIndex |-> indexOf(text, matches[k]),
       endIndex   |-> indexOf(text, matches[k]) + Len(matches[k]) ]]

entitiesOf(type, text) == entitiesFor(type, text, matchAll(type, text, 1))

entitiesResult(entities, dt) ==
  [ entities       |-> entities,
    totalEntities  |-> Len(entities),
    processingTime |-> dt ]

extractEntities(text, dt) ==
  entitiesResult(Concat([t \in 1..Len(patternTypes) |-> entitiesOf(patternTypes[t], text)]),
                 dt)

-----------------------------------------------------------------------------
(* AIService.processAnalysis *)

AnalysisType == {"sentiment", "classification", "summarization", "translation",
                 "entity_extraction"}

\* request.options?.<name>, or the parameter's default when it is undefined
option(request, name, default) ==
  IF "options" \in DOMAIN request /\ name \in DOMAIN request.options
  THEN request.options[name] ELSE default

\* The analyzer the switch selects.  Every analyzer dereferences text at once
\* (text.toLowerCase(), text.split(...), text.match(...)), so an undefined
\* text raises a TypeError, which the analyzer's catch block raises again.
analyzerFlipped(request, dt) ==
  IF "text" \notin DOMAIN request THEN Threw(TypeError)
  ELSE CASE request.analysisType = "sentiment" ->
              Returned(classifyText(request.text, dt))
         [] request.analysisType = "classification" ->
              Returned(analyzeSentiment(request.text, dt))
         [] request.analysisType = "summarization" ->
              Returned(summarizeText(request.text, option(request, "maxTokens", 100), dt))
         [] request.analysisType = "translation" ->
              Returned(translateText(request.text, option(request, "language", "es"), dt))
         [] request.analysisType = "entity_extraction" ->
              Returned(extractEntities(request.text, dt))
analyzer(request, dt) ==
  IF "text" \notin DOMAIN request THEN Threw(TypeError)
  ELSE CASE request.analysisType = "sentiment" ->
              Returned(analyzeSentiment(request.text, dt))
         [] request.analysisType = "classification" ->
              Returned(classifyText(request.text, dt))
         [] request.analysisType = "summarization" ->
              Returned(summarizeText(request.text, option(request, "maxTokens", 100), dt))
         [] request.analysisType = "translation" ->
              Returned(translateText(request.text, option(request, "language", "es"), dt))
         [] request.analysisType = "entity_extraction" ->
              Returned(extractEntities(request.text, dt))

\* result.confidence || 0.8
confidenceOr(result, default) ==
  IF "confidence" \in DOMAIN result /\ result.confidence # 0
  THEN result.confidence ELSE default

\* The response built from the analyzer's outcome; what the analyzer throws
\* is logged and thrown again.
analysisResponse(request, result, dtOuter) ==
  IF result.threw THEN result
  ELSE Returned(
         [ analysisType |-> request.analysisType,
           result   |-> [ confidence     |-> confidenceOr(result.value, 800),
                          data           |-> result.value,
                          processingTime |-> dtOuter ],
           metadata |-> [ model      |-> "demo-model-v1",
                          version    |-> "1.0.0",
                          tokensUsed |-> Len(request.text) \div 4 ] ])

\* The body of the try block.  dt is the time the analyzer measures, dtOuter
\* the time processAnalysis measures.
analysisAttempt(request, dt, dtOuter) ==
  IF request.analysisType \notin AnalysisType
  THEN Threw(Error("Unsupported analysis type: ", request.analysisType))
  ELSE analysisResponse(request, analyzer(request, dt), dtOuter)

analysisFailureValue(outcome) ==
  IF outcome.threw
  THEN Returned([ analysisType |-> "failed",
                  result   |-> [ confidence     |-> 0,
                                 data           |-> outcome.error,
                                 processingTime |-> 0 ],
                  metadata |-> [ model      |-> "demo-model-v1",
                                 version    |-> "1.0.0",
                                 tokensUsed |-> 0 ] ])
  ELSE outcome
\* catch (error) { logger.error(...); throw error; }
analysisCaught(outcome) == outcome

processAnalysis(request, dt, dtOuter) ==
  analysisCaught(analysisAttempt(request, dt, dtOuter))

-----------------------------------------------------------------------------
(* MLService: arithmetic *)

weightedSumCycling(features, weights, bias) ==
  bias * 1000
  + SumSeq([i \in 1..Len(features) |->
              features[i] * weights[((i - 1) % Len(weights)) + 1]])
\* bias + the sum of features[i] * weights[i] over i < Math.min(features.length,
\* weights.length), in micro; bias and weights are in milli.
weightedSum(features, weights, bias) ==
  bias * 1000
  + SumSeq([i \in 1..Min(Len(features), Len(weights)) |-> features[i] * weights[i]])

\* Math.exp(-x) for x >= 0, in ten-thousandths, x in ten-thousandths.  The power
\* series of exp(-f) for the fractional part f, times exp(-1) once for every
\* unit of the integer part; each step is rounded to a ten-thousandth.
RECURSIVE expSeries(_, _, _)
expSeries(f, term, k) ==
  IF term = 0 \/ k > 12 THEN 0
  ELSE term + expSeries(f, -RoundDiv(term * f, 10000 * k), k + 1)

RECURSIVE expUnits(_, _)
expUnits(e, n) == IF n = 0 \/ e = 0 THEN e ELSE expUnits(RoundDiv(e * 3679, 10000), n - 1)

expNeg(x) == expUnits(expSeries(x % 10000, 10000, 1), x \div 10000)

\* 1 / (1 + Math.exp(-score)) in ten-thousandths, score in micro
sigmoid(score) ==
  LET e == expNeg(Abs(score) \div 100)
  IN  IF score >= 0 THEN RoundDiv(10000 * 10000, 10000 + e)
                    ELSE RoundDiv(10000 * e, 10000 + e)

\* The integer part of the square root of n.
RECURSIVE isqrtBetween(_, _, _)
isqrtBetween(n, lo, hi) ==
  IF lo >= hi THEN lo
  ELSE LET mid == (lo + hi + 1) \div 2
       IN  IF mid * mid <= n THEN isqrtBetween(n, mid, hi) ELSE isqrtBetween(n, lo, mid - 1)

isqrt(n) == isqrtBetween(n, 0, Min(n, 46340))

-----------------------------------------------------------------------------
(* MLService.linearRegression *)

regressionWeightsReversed == <<-100, 200, 800, -300, 500>>
regressionWeights == <<500, -300, 800, 200, -100>>
regressionBias == 1200

\* noise is (Math.random() - 0.5) * 0.1, in micro
linearRegressionNoisyConfidence(features, noise) ==
  LET prediction == weightedSum(features, regressionWeights, regressionBias) + noise
  IN  [ prediction |-> RoundDiv(prediction, 1000),
        confidence |-> 850 - Abs(noise) \div 1000,
        modelInfo  |-> [ type         |-> "linear_regression",
                         coefficients |-> SubSeq(regressionWeights, 1,
                                                 Min(Len(features), Len(regressionWeights))),
                         bias         |-> regressionBias,
                         r_squared    |-> 820 ] ]
linearRegression(features, noise) ==
  LET prediction == weightedSum(features, regressionWeights, regressionBias) + noise
  IN  [ prediction |-> RoundDiv(prediction, 1000),
        confidence |-> 850,
        modelInfo  |-> [ type         |-> "linear_regression",
                         coefficients |-> SubSeq(regressionWeights, 1,
                                                 Min(Len(features), Len(regressionWeights))),
                         bias         |-> regressionBias,
                         r_squared    |-> 820 ] ]

-----------------------------------------------------------------------------
(* MLService.classification *)

classificationWeights == <<700, -400, 600, -200, 300>>
classificationBias == 100

classificationWithProbabilities(features, returnProbabilities) ==
  LET score == weightedSum(features, classificationWeights, classificationBias)
      probability == sigmoid(score)
  IN  [ prediction    |-> IF probability > 5000 THEN "positive" ELSE "negative",
        confidence    |-> RoundDiv(Abs(probability - 5000) * 2, 10),
        modelInfo     |-> [ type      |-> "logistic_regression",
                            threshold |-> 500,
                            accuracy  |-> 890 ],
        probabilities |-> [ positive |-> RoundDiv(probability, 10),
                            negative |-> RoundDiv(10000 - probability, 10) ] ]
classificationFromHalf(features, returnProbabilities) ==
  LET score == weightedSum(features, classificationWeights, classificationBias)
      probability == sigmoid(score)
      result == [ prediction |-> IF probability >= 5000 THEN "positive" ELSE "negative",
                  confidence |-> RoundDiv(Abs(probability - 5000) * 2, 10),
                  modelInfo  |-> [ type      |-> "logistic_regression",
                                   threshold |-> 500,
                                   accuracy  |-> 890 ] ]
  IN  IF returnProbabilities
      THEN result @@ [ probabilities |->
                         [ positive |-> RoundDiv(probability, 10),
                           negative |-> RoundDiv(10000 - probability, 10) ] ]
      ELSE result
classification(features, returnProbabilities) ==
  LET score == weightedSum(features, classificationWeights, classificationBias)
      probability == sigmoid(score)
      result == [ prediction |-> IF probability > 5000 THEN "positive" ELSE "negative",
                  confidence |-> RoundDiv(Abs(probability - 5000) * 2, 10),
                  modelInfo  |-> [ type      |-> "logistic_regression",
                                   threshold |-> 500,
                                   accuracy  |-> 890 ] ]
  IN  IF returnProbabilities
      THEN result @@ [ probabilities |->
                         [ positive |-> RoundDiv(probability, 10),
                           negative |-> RoundDiv(10000 - probability, 10) ] ]
      ELSE result

-----------------------------------------------------------------------------
(* MLService.clustering *)

centroidsPair == << <<1000, 2000, 1500>>, <<-1000, 500, -500>> >>
centroids == << <<1000, 2000, 1500>>, <<-1000, 500, -500>>, <<2500, -1000, 3000>> >>

\* The square of the distance from features to centroid, in micro.
squaredDistance(features, centroid) ==
  SumSeq([i \in 1..Min(Len(features), Len(centroid)) |->
            (features[i] - centroid[i]) * (features[i] - centroid[i])])

RECURSIVE nearestOrLater(_, _, _)
nearestOrLater(features, best, index) ==
  IF index > Len(centroids) THEN best
  ELSE nearestOrLater(features,
                      IF squaredDistance(features, centroids[index])
                           <= squaredDistance(features, centroids[best])
                      THEN index ELSE best,
                      index + 1)
\* centroids.forEach: a later centroid replaces the assigned one only when it is
\* strictly nearer.  Distances are compared by their squares.
RECURSIVE nearestFrom(_, _, _)
nearestFrom(features, best, index) ==
  IF index > Len(centroids) THEN best
  ELSE nearestFrom(features,
                   IF squaredDistance(features, centroids[index])
                        < squaredDistance(features, centroids[best])
                   THEN index ELSE best,
                   index + 1)

clustering(features) ==
  LET assigned == nearestFrom(features, 1, 2)
      squared == squaredDistance(features, centroids[assigned])
      whole == isqrt(squared)            \* minDistance in milli, rounded down
      exact == whole * whole = squared
      \* 1 - minDistance / 10 in ten-thousandths is 10000 - minDistance
      confidence == IF exact THEN RoundDiv(10000 - whole, 10)
                    ELSE (10000 - whole + 4) \div 10
  IN  [ prediction |-> <<"cluster_", assigned - 1>>,
        confidence |-> Max(100, confidence),
        distance   |-> IF squared > whole * whole + whole THEN whole + 1 ELSE whole,
        modelInfo  |-> [ type |-> "kmeans", clusters |-> 3, centroids |-> centroids ] ]

-----------------------------------------------------------------------------
(* MLService.anomalyDetection *)

normalRanges == << [min |-> -2000, max |-> 2000],
                   [min |-> -1000, max |-> 3000],
                   [min |-> 0,     max |-> 4000],
                   [min |-> -3000, max |-> 1000],
                   [min |-> -1000, max |-> 2000] >>

\* The indices, below normalRanges.length, of the features outside their range.
outOfRange(features) ==
  {i \in 1..Min(Len(features), Len(normalRanges)) :
     features[i] < normalRanges[i].min \/ features[i] > normalRanges[i].max}

deviation(feature, range) == Min(Abs(feature - range.min), Abs(feature - range.max))

\* threshold is in milli.  anomalyScore, before it is rounded, is the fraction
\* num / den; with no features it is 0 / 0, which is NaN.
anomalyDetection(features, threshold) ==
  LET out == outOfRange(features)
      sum == SumSeq([i \in 1..Len(features) |->
                       IF i \in out THEN deviation(features[i], normalRanges[i]) ELSE 0])
      den == Len(features) * 2
      isNaN == den = 0
      num == Min(1000 * den, sum)        \* Math.min(1, anomalyScore / (length * 2))
      isAnomaly == ~isNaN /\ num > threshold * den
      confidence == Min(1000 * den, Abs(num - threshold * den) + 100 * den)
  IN  [ prediction   |-> IF isAnomaly THEN "anomaly" ELSE "normal",
        confidence   |-> IF isNaN THEN NaN ELSE RoundDiv(confidence, den),
        anomalyScore |-> IF isNaN THEN NaN ELSE RoundDiv(num, den),
        outOfRangeFeatures |-> Cardinality(out),
        modelInfo    |-> [ type         |-> "isolation_forest",
                           threshold    |-> threshold,
                           normalRanges |-> SubSeq(normalRanges, 1,
                                                   Min(Len(features), Len(normalRanges))) ] ]

-----------------------------------------------------------------------------
(* MLService.makePrediction *)

ModelType == {"linear_regression", "classification", "clustering", "anomaly_detection"}

\* The scorer the switch selects.  Every scorer reads features.length, so an
\* undefined features raises a TypeError, which the scorer's catch block
\* raises again.
scorer(request, noise) ==
  IF "features" \notin DOMAIN request THEN Threw(TypeError)
  ELSE CASE request.modelType = "linear_regression" ->
              Returned(linearRegression(request.features, noise))
         [] request.modelType = "classification" ->
              Returned(classification(request.features,
                                      option(request, "returnProbabilities", FALSE)))
         [] request.modelType = "clustering" ->
              Returned(clustering(request.features))
         [] request.modelType = "anomaly_detection" ->
              Returned(anomalyDetection(request.features, option(request, "threshold", 500)))

accuracyIgnored(result, default) == default
\* result.modelInfo?.accuracy || 0.85
accuracyOr(result, default) ==
  IF "accuracy" \in DOMAIN result.modelInfo /\ result.modelInfo.accuracy # 0
  THEN result.modelInfo.accuracy ELSE default

\* The response built from the scorer's outcome; what the scorer throws is
\* logged and thrown again.  probabilities is present when the scorer set it.
predictionResponse(request, result) ==
  IF result.threw THEN result
  ELSE Returned(
         [ prediction |-> result.value.prediction,
           confidence |-> result.value.confidence,
           modelInfo  |-> [ type     |-> request.modelType,
                            version  |-> "1.0.0",
                            accuracy |-> accuracyOr(result.value, 850) ] ]
         @@ [f \in DOMAIN result.value \cap {"probabilities"} |-> result.value[f]])

\* The body of the try block.
predictionAttempt(request, noise) ==
  IF request.modelType \notin ModelType
  THEN Threw(Error("Unsupported model type: ", request.modelType))
  ELSE predictionResponse(request, scorer(request, noise))

\* catch (error) { logger.error(...); throw error; }
predictionCaught(outcome) == outcome

makePrediction(request, noise) ==
  predictionCaught(predictionAttempt(request, noise))

-----------------------------------------------------------------------------
(* Inputs of the services *)

\* The sequences of at most n elements of S.
SeqsUpTo(S, n) == UNION {[1..k -> S] : k \in 0..n}

\* Texts given to analyzeSentiment: a listed word with and without a space
\* after it, a word in upper case, a tab, a space and a full stop.
SentimentPieces ==
  { <<"g","o","o","d"," ">>, <<"g","o","o","d">>, <<"B","a","d"," ">>,
    <<"\t">>, <<" ">>, <<".">> }

SentimentTexts == {Concat(p) : p \in SeqsUpTo(SentimentPieces, MaxWords)}

\* Texts given to processAnalysis.
EnginePieces ==
  { <<"G","o","o","d">>, <<"g","a","m","e">>, <<"h","e","l","l","o">>,
    <<"a","@","b",".","c","o">>, <<" ">>, <<".">> }

EngineTexts == {Concat(p) : p \in SeqsUpTo(EnginePieces, MaxTokens)}

\* The options that reach an analyzer: language (translation) and maxTokens
\* (summarization).
AnalysisOptions(type) ==
  CASE type = "translation" ->
         {[language |-> l] : l \in {"es", "fr", "de"}}
    [] type = "summarization" ->
         {[maxTokens |-> 1], [maxTokens |-> 50]}
    [] OTHER -> {[confidence |-> 800]}

AnalysisTypeInputs == AnalysisType \cup {"unsupported", "SENTIMENT"}

AnalysisRequests ==
  UNION { {[text |-> t, analysisType |-> a] : t \in EngineTexts}
          \cup {[text |-> t, analysisType |-> a, options |-> o] :
                  t \in EngineTexts, o \in AnalysisOptions(a)}
          \cup {[analysisType |-> a]}
        : a \in AnalysisTypeInputs }

FeatureValues == {-3000, 0, 500, 2500}

FeatureVectors == SeqsUpTo(FeatureValues, MaxFeatures)

\* The options that reach a scorer: returnProbabilities (classification) and
\* threshold (anomaly detection).
PredictionOptions(type) ==
  CASE type = "classification" ->
         {[returnProbabilities |-> b] : b \in BOOLEAN}
    [] type = "anomaly_detection" ->
         {[threshold |-> t] : t \in {0, 300, 1000}}
    [] OTHER -> {}

ModelTypeInputs == ModelType \cup {"unsupported"}

PredictionRequests ==
  UNION { {[features |-> f, modelType |-> m] : f \in FeatureVectors}
          \cup {[features |-> f, modelType |-> m, options |-> o] :
                  f \in FeatureVectors, o \in PredictionOptions(m)}
          \cup {[modelType |-> m]}
        : m \in ModelTypeInputs }

\* (Math.random() - 0.5) * 0.1 with Math.random() in [0, 1), in micro
Noises == {-50000, 0, 49999}

-----------------------------------------------------------------------------
(* Direct calls of the services *)

NoCall == [op |-> "none", done |-> TRUE]

RouteIdle ==
  /\ phase = "idle"
  /\ route = "none"
  /\ body = [requests |-> <<>>]
  /\ items = <<>>
  /\ results = <<>>
  /\ settled = <<>>
  /\ store = <<>>
  /\ response = [status |-> 0]

\* aiService.analyzeSentiment(text)
AnalyzeSentimentCall ==
  /\ call.op = "analyzeSentiment" /\ ~call.done
  /\ \E dt \in 0..MaxElapsed :
       call' = [call EXCEPT !.done = TRUE] @@
               [outcome |-> Returned(analyzeSentiment(call.text, dt))]
  /\ UNCHANGED routeVars

\* aiService.processAnalysis(request)
ProcessAnalysisCall ==
  /\ call.op = "processAnalysis" /\ ~call.done
  /\ \E dt \in 0..MaxElapsed : \E dtOuter \in dt..MaxElapsed :
       call' = [call EXCEPT !.done = TRUE] @@
               [outcome |-> processAnalysis(call.request, dt, dtOuter)]
  /\ UNCHANGED routeVars

\* mlService.makePrediction(request)
MakePredictionCall ==
  /\ call.op = "makePrediction" /\ ~call.done
  /\ \E noise \in Noises :
       call' = [call EXCEPT !.done = TRUE] @@
               [outcome |-> makePrediction(call.request, noise)]
  /\ UNCHANGED routeVars

\* aiService.processAnalysis(request) called a second time on the singleton
\* with the request of the first call.  AIService has no instance fields, so
\* the second call reads nothing the first one wrote.
ProcessAnalysisAgain ==
  /\ call.op = "processAnalysis" /\ call.done /\ "again" \notin DOMAIN call
  /\ \E dt \in 0..MaxElapsed : \E dtOuter \in dt..MaxElapsed :
       call' = call @@ [again |-> processAnalysis(call.request, dt, dtOuter)]
  /\ UNCHANGED routeVars

\* mlService.makePrediction(request) called a second time on the singleton
\* with the request of the first call; Math.random() is drawn afresh.
MakePredictionAgain ==
  /\ call.op = "makePrediction" /\ call.done /\ "again" \notin DOMAIN call
  /\ \E noise \in Noises :
       call' = call @@ [again |-> makePrediction(call.request, noise)]
  /\ UNCHANGED routeVars

SentimentInit ==
  /\ call \in {[op |-> "analyzeSentiment", done |-> FALSE, text |-> t] : t \in SentimentTexts}
  /\ RouteIdle

SentimentNext == AnalyzeSentimentCall

SentimentSpec == SentimentInit /\ [][SentimentNext]_vars

EngineInit ==
  /\ call \in {[op |-> "processAnalysis", done |-> FALSE, request |-> r] :
                 r \in AnalysisRequests}
            \cup {[op |-> "makePrediction", done |-> FALSE, request |-> r] :
                    r \in PredictionRequests}
  /\ RouteIdle

EngineNext == ProcessAnalysisCall \/ MakePredictionCall

EngineSpec == EngineInit /\ [][EngineNext]_vars

RepeatNext ==
  \/ ProcessAnalysisCall
  \/ MakePredictionCall
  \/ ProcessAnalysisAgain
  \/ MakePredictionAgain

RepeatSpec == EngineInit /\ [][RepeatNext]_vars

-----------------------------------------------------------------------------
(* Direct calls of classifyText *)

\* Texts given to classifyText: keywords of one category, a keyword of two
\* ("game"), a word that holds another category's keyword ("entertainment"
\* holds "ai"), four keywords of one category at once, and words of none.
ClassifyPieces ==
  { <<"A","I"," ">>, <<"g","a","m","e"," ">>, <<"t","e","a","m"," ">>, <<"P","r","o","f","i","t"," ">>,
    <<"d","a","t","a"," ">>, <<"h","e","l","l","o"," ">>, <<"a","i">>,
    <<"e","n","t","e","r","t","a","i","n","m","e","n","t"," ">>,
    <<"C","O","D","E"," ","s","o","f","t","w","a","r","e"," ","c","o","m","p","u","t","e","r"," ","p","r","o","g","r","a","m","m","i","n","g"," ">> }

ClassifyTexts == {Concat(p) : p \in SeqsUpTo(ClassifyPieces, MaxTokens)}

\* aiService.classifyText(text)
ClassifyTextCall ==
  /\ call.op = "classifyText" /\ ~call.done
  /\ \E dt \in 0..MaxElapsed :
       call' = [call EXCEPT !.done = TRUE] @@
               [outcome |-> Returned(classifyText(call.text, dt))]
  /\ UNCHANGED routeVars

ClassifyInit ==
  /\ call \in {[op |-> "classifyText", done |-> FALSE, text |-> t] : t \in ClassifyTexts}
  /\ RouteIdle

ClassifyNext == ClassifyTextCall

ClassifySpec == ClassifyInit /\ [][ClassifyNext]_vars

-----------------------------------------------------------------------------
(* Direct calls of summarizeText *)

\* Texts given to summarizeText: one sentence, four sentences closed by
\* different terminators, a word with no terminator, a run of terminators and
\* a space.
SummarizePieces ==
  { <<"H","i",".">>, <<"a","!","b","?","c","."," ","d",".">>, <<"n","o">>, <<"?","!">>, <<" ">> }

SummarizeTexts == {Concat(p) : p \in SeqsUpTo(SummarizePieces, MaxTokens)}

\* aiService.summarizeText(text, maxTokens); maxTokens is 100 when not given
SummarizeTextCall ==
  /\ call.op = "summarizeText" /\ ~call.done
  /\ \E dt \in 0..MaxElapsed :
       call' = [call EXCEPT !.done = TRUE] @@
               [outcome |-> Returned(summarizeText(call.text, call.maxTokens, dt))]
  /\ UNCHANGED routeVars

SummarizeInit ==
  /\ call \in {[op |-> "summarizeText", done |-> FALSE, text |-> t, maxTokens |-> m] :
                 t \in SummarizeTexts, m \in {1, 50, 100}}
  /\ RouteIdle

SummarizeNext == SummarizeTextCall

SummarizeSpec == SummarizeInit /\ [][SummarizeNext]_vars

-----------------------------------------------------------------------------
(* Direct calls of translateText *)

\* Texts given to translateText: the five English tokens, in either case, the
\* beginnings of two of them, and a space.
TranslatePieces ==
  { <<"H","e","l","l","o">>, <<"w","o","r","l","d">>, <<"G","O","O","D">>, <<"m","o","r","n","i","n","g">>,
    <<"t","h","a","n","k"," ","y","o","u">>, <<"t","h","a","n","k">>, <<"h","e","l","l">>, <<" ">> }

TranslateTexts == {Concat(p) : p \in SeqsUpTo(TranslatePieces, MaxTokens)}

\* aiService.translateText(text, targetLanguage)
TranslateTextCall ==
  /\ call.op = "translateText" /\ ~call.done
  /\ \E dt \in 0..MaxElapsed :
       call' = [call EXCEPT !.done = TRUE] @@
               [outcome |-> Returned(translateText(call.text, call.targetLanguage, dt))]
  /\ UNCHANGED routeVars

TranslateInit ==
  /\ call \in {[op |-> "translateText", done |-> FALSE, text |-> t, targetLanguage |-> l] :
                 t \in TranslateTexts, l \in {"es", "fr", "de"}}
  /\ RouteIdle

TranslateNext == TranslateTextCall

TranslateSpec == TranslateInit /\ [][TranslateNext]_vars

-----------------------------------------------------------------------------
(* Direct calls of extractEntities *)

\* Texts given to extractEntities: an email address, a phone number, a date,
\* a URL, two amounts, a digit and a space.
EntityPieces ==
  { <<"a","@","b",".","c","o">>, <<"5","5","5","-","1","2","3","-","4","5","6","7"," ">>, <<"1","/","2","/","2","0","2","4">>,
    <<"h","t","t","p",":","/","/","x">>, <<"$","5">>, <<"$","5",".","0","0">>, <<"9">>, <<" ">> }

EntityTexts == {Concat(p) : p \in SeqsUpTo(EntityPieces, MaxTokens)}

\* aiService.extractEntities(text)
ExtractEntitiesCall ==
  /\ call.op = "extractEntities" /\ ~call.done
  /\ \E dt \in 0..MaxElapsed :
       call' = [call EXCEPT !.done = TRUE] @@
               [outcome |-> Returned(extractEntities(call.text, dt))]
  /\ UNCHANGED routeVars

EntitiesInit ==
  /\ call \in {[op |-> "extractEntities", done |-> FALSE, text |-> t] : t \in EntityTexts}
  /\ RouteIdle

EntitiesNext == ExtractEntitiesCall

EntitiesSpec == EntitiesInit /\ [][EntitiesNext]_vars

-----------------------------------------------------------------------------
(* Direct calls of the scorers *)

\* Feature vectors given to a scorer: up to one feature more than the
\* scorers have weights, each feature -1.0, 0.0 or 1.0.
ScoredVectors == SeqsUpTo({-1000, 0, 1000}, MaxScored)

\* mlService.linearRegression(features)
LinearRegressionCall ==
  /\ call.op = "linearRegression" /\ ~call.done
  /\ \E noise \in Noises :
       call' = [call EXCEPT !.done = TRUE] @@
               [outcome |-> Returned(linearRegression(call.features, noise))]
  /\ UNCHANGED routeVars

\* mlService.classification(features, returnProbabilities)
ClassificationCall ==
  /\ call.op = "classification" /\ ~call.done
  /\ call' = [call EXCEPT !.done = TRUE] @@
             [outcome |-> Returned(classification(call.features, call.returnProbabilities))]
  /\ UNCHANGED routeVars

\* Feature vectors given to clustering: coordinates of the first centroid and
\* 0.0, which is as far from the first centroid's 1.0 as from the second's -1.0.
ClusteredVectors == SeqsUpTo({0, 1000, 1500, 2000}, MaxScored)

\* Feature vectors given to anomalyDetection: -3.0 and 5.0 are outside most of
\* the normal ranges, 0.0 is inside all of them.
AnomalyVectors == SeqsUpTo({-3000, 0, 5000}, MaxScored)

\* mlService.clustering(features)
ClusteringCall ==
  /\ call.op = "clustering" /\ ~call.done
  /\ call' = [call EXCEPT !.done = TRUE] @@
             [outcome |-> Returned(clustering(call.features))]
  /\ UNCHANGED routeVars

\* mlService.anomalyDetection(features, threshold)
AnomalyDetectionCall ==
  /\ call.op = "anomalyDetection" /\ ~call.done
  /\ call' = [call EXCEPT !.done = TRUE] @@
             [outcome |-> Returned(anomalyDetection(call.features, call.threshold))]
  /\ UNCHANGED routeVars

ScorersInit ==
  /\ call \in {[op |-> "linearRegression", done |-> FALSE, features |-> f] :
                 f \in ScoredVectors}
            \cup {[op |-> "classification", done |-> FALSE, features |-> f,
                    returnProbabilities |-> r] : f \in ScoredVectors, r \in BOOLEAN}
            \cup {[op |-> "clustering", done |-> FALSE, features |-> f] :
                    f \in ClusteredVectors}
            \cup {[op |-> "anomalyDetection", done |-> FALSE, features |-> f,
                    threshold |-> t] : f \in AnomalyVectors, t \in {0, 500, 1000}}
            \cup {[op |-> "makePrediction", done |-> FALSE, request |-> r] :
                    r \in PredictionRequests}
  /\ RouteIdle

ScorersNext ==
  \/ LinearRegressionCall
  \/ ClassificationCall
  \/ ClusteringCall
  \/ AnomalyDetectionCall
  \/ MakePredictionCall

ScorersSpec == ScorersInit /\ [][ScorersNext]_vars

-----------------------------------------------------------------------------
(* Statistics: utils/helpers.ts, and the copies in routes/metrics.ts and
   routes/data.ts.  Numbers are counted in thousandths. *)

\* (a, b) => a - b
ascending(a, b) == a - b

unsorted(array, keys) == array
\* Array.prototype.sort with a comparator that subtracts the key of b from
\* the key of a, keys[i] being the key of array[i]: the element at position i
\* goes after the elements of lower key and after the elements of the same
\* key that come before it (the sort is stable).
sort(array, keys) ==
  LET rank(i) == Cardinality({j \in DOMAIN array :
                                \/ ascending(keys[j], keys[i]) < 0
                                \/ ascending(keys[j], keys[i]) = 0 /\ j < i})
  IN  [k \in DOMAIN array |-> array[CHOOSE i \in DOMAIN array : rank(i) = k - 1]]

\* calculateMedian(numbers); sorted[mid] of the code is sorted[mid + 1] here.
calculateMedian(numbers) ==
  IF Len(numbers) = 0 THEN 0
  ELSE LET sorted == sort(numbers, numbers)
           mid == Len(sorted) \div 2
       IN  IF Len(sorted) % 2 # 0
           THEN sorted[mid + 1]
           ELSE (sorted[mid] + sorted[mid + 1]) \div 2

roundedDown(a, b) == a \div b
\* Math.ceil(a / b) for a >= 0 and b > 0
ceil(a, b) == (a + b - 1) \div b

\* calculatePercentile(numbers, percentile), percentile a whole number
calculatePercentile(numbers, percentile) ==
  IF Len(numbers) = 0 THEN 0
  ELSE LET sorted == sort(numbers, numbers)
           index == ceil(percentile * Len(sorted), 100) - 1
       IN  sorted[Max(0, index) + 1]

\* Sequences of numbers: 10.0 sorts before 2.0 as text and after it as a
\* number; every number is even in thousandths, so that the mean of two is
\* exact.  The sequences of the documented examples are added whole.
NumberLists ==
  SeqsUpTo({-2000, 2000, 10000}, MaxNumbers)
    \cup {<<1000, 3000, 2000>>, <<1000, 2000, 3000, 4000>>,
          <<1000, 2000, 3000, 4000, 5000>>}

Percentiles == {0, 1, 25, 50, 95, 100}

\* calculateMedian(numbers): the code sorts a copy, numbers is not written
CalculateMedianCall ==
  /\ call.op = "calculateMedian" /\ ~call.done
  /\ call' = [call EXCEPT !.done = TRUE] @@
             [outcome |-> Returned(calculateMedian(call.numbers))]
  /\ UNCHANGED routeVars

\* calculatePercentile(numbers, percentile): sorts a copy as well
CalculatePercentileCall ==
  /\ call.op = "calculatePercentile" /\ ~call.done
  /\ call' = [call EXCEPT !.done = TRUE] @@
             [outcome |-> Returned(calculatePercentile(call.numbers, call.percentile))]
  /\ UNCHANGED routeVars

getUTCHours(time, timezoneOffset) == (time \div 60) % 24
\* Date.prototype.getHours: the hour of the day of local time.  A time is
\* counted in minutes since the epoch; timezoneOffset is what
\* getTimezoneOffset returns, the minutes from local time to UTC.
getHours(time, timezoneOffset) == ((time - timezoneOffset) \div 60) % 24

\* items.forEach(item => hourlyCount[new Date(item.createdAt).getHours()]++)
RECURSIVE countHours(_, _, _)
countHours(items_, hourlyCount, timezoneOffset) ==
  IF items_ = <<>> THEN hourlyCount
  ELSE countHours(Tail(items_),
                  [hourlyCount EXCEPT
                     ![getHours(Head(items_).createdAt, timezoneOffset)] = @ + 1],
                  timezoneOffset)

\* calculateHourlyTrends(items) in a process whose time zone is at
\* timezoneOffset; the array is a function on the indices 0..23.
calculateHourlyTrends(items_, timezoneOffset) ==
  countHours(items_, [hour \in 0..23 |-> 0], timezoneOffset)

\* Creation times: 00:00, 00:59, 01:00, 13:35 and 23:59 UTC of the first day
\* of the epoch, 00:30 of the second and 23:00 of the day before the first.
CreationTimes == {-60, 0, 59, 60, 815, 1439, 1470}

\* UTC, UTC+05:30 and UTC-05:00
TimezoneOffsets == {0, -330, 300}

TimedItems == SeqsUpTo({[createdAt |-> t] : t \in CreationTimes}, MaxHourly)

\* calculateHourlyTrends(items)
CalculateHourlyTrendsCall ==
  /\ call.op = "calculateHourlyTrends" /\ ~call.done
  /\ call' = [call EXCEPT !.done = TRUE] @@
             [outcome |-> Returned(calculateHourlyTrends(call.items,
                                                         call.timezoneOffset))]
  /\ UNCHANGED routeVars

\* Infinity; -Infinity is its negation
Infinity == 2000000000

\* a / b of two whole numbers, kept exact as a fraction whose denominator is
\* not negative: a denominator 0 is Infinity, -Infinity or NaN by the sign of
\* the numerator.
quotient(a, b) ==
  IF b < 0 THEN [num |-> -a, den |-> -b] ELSE [num |-> a, den |-> b]

\* x - y of two finite fractions
difference(x, y) ==
  [num |-> x.num * y.den - y.num * x.den, den |-> x.den * y.den]

\* x / y of two finite fractions
ratio(x, y) == quotient(x.num * y.den, x.den * y.num)

\* x * k for a whole k > 0
times(x, k) == [num |-> x.num * k, den |-> x.den]

\* Math.abs(x) < bound
absBelow(x, bound) == x.den > 0 /\ Abs(x.num) < bound * x.den

\* x > 0
positive(x) == x.num > 0

\* parseFloat(x.toFixed(2)), in thousandths
fixed2(x) ==
  IF x.den = 0
  THEN IF x.num > 0 THEN Infinity ELSE IF x.num < 0 THEN -Infinity ELSE NaN
  ELSE 10 * RoundDiv(x.num * 100, x.den)

\* new Date(dp.timestamp).getTime() of each data point, the key of the sort
getTime(dataPoints) == [i \in DOMAIN dataPoints |-> dataPoints[i].timestamp]

\* Array.prototype.slice(start, end)
slice(array, start, end) == SubSeq(array, start + 1, end)

\* reduce((sum, dp) => sum + dp.value, 0)
RECURSIVE sumOfValues(_)
sumOfValues(dataPoints) ==
  IF dataPoints = <<>> THEN 0
  ELSE Head(dataPoints).value + sumOfValues(Tail(dataPoints))

trendOfSign(change) ==
  IF positive(change) THEN "increasing" ELSE "decreasing"
\* trend of calculateTrends
trendOf(change) ==
  IF absBelow(change, 5) THEN "stable"
  ELSE IF positive(change) THEN "increasing"
  ELSE "decreasing"

\* calculateTrends(dataPoints, timeframe): the value returned and, since sort
\* works in place, the caller's array after the call.  The values of the data
\* points are whole numbers; the averages returned are in thousandths and
\* change in thousandths of a percent.
calculateTrends(dataPoints) ==
  IF Len(dataPoints) < 2
  THEN [value |-> [trend |-> "insufficient_data", change |-> 0],
        dataPoints |-> dataPoints]
  ELSE LET sorted == sort(dataPoints, getTime(dataPoints))
           firstHalf == slice(sorted, 0, Len(sorted) \div 2)
           secondHalf == slice(sorted, Len(sorted) \div 2, Len(sorted))
           firstAvg == quotient(sumOfValues(firstHalf), Len(firstHalf))
           secondAvg == quotient(sumOfValues(secondHalf), Len(secondHalf))
           change == times(ratio(difference(secondAvg, firstAvg), firstAvg), 100)
       IN  [value |-> [trend |-> trendOf(change),
                       change |-> fixed2(change),
                       firstPeriodAvg |-> fixed2(firstAvg),
                       secondPeriodAvg |-> fixed2(secondAvg)],
            dataPoints |-> sorted]

\* Data points at two times; 105 is 5 % above 100.
DataPoints ==
  SeqsUpTo({[timestamp |-> t, value |-> v] :
              t \in {10, 20}, v \in {-100, 0, 100, 105}}, MaxSamples)

\* calculateTrends(dataPoints, timeframe)
CalculateTrendsCall ==
  /\ call.op = "calculateTrends" /\ ~call.done
  /\ LET result == calculateTrends(call.dataPoints)
     IN  call' = [call EXCEPT !.done = TRUE, !.dataPoints = result.dataPoints] @@
                 [outcome |-> Returned(result.value)]
  /\ UNCHANGED routeVars

\* given is the argument as the caller passed it
StatisticsInit ==
  /\ call \in {[op |-> "calculateMedian", done |-> FALSE, numbers |-> n,
                 given |-> n] : n \in NumberLists}
            \cup {[op |-> "calculatePercentile", done |-> FALSE, numbers |-> n,
                    given |-> n, percentile |-> p] :
                    n \in NumberLists, p \in Percentiles}
            \cup {[op |-> "calculateHourlyTrends", done |-> FALSE, items |-> i,
                    timezoneOffset |-> z] : i \in TimedItems, z \in TimezoneOffsets}
            \cup {[op |-> "calculateTrends", done |-> FALSE, dataPoints |-> d,
                    given |-> d] : d \in DataPoints}
  /\ RouteIdle

StatisticsNext ==
  \/ CalculateMedianCall
  \/ CalculatePercentileCall
  \/ CalculateHourlyTrendsCall
  \/ CalculateTrendsCall

StatisticsSpec == StatisticsInit /\ [][StatisticsNext]_vars

-----------------------------------------------------------------------------
(* Request bodies and their validation *)

\* A JSON value that is neither a string nor a number carries its kind as
\* its only field: [array |-> <<...>>] is an array, [object |-> ...] an
\* object, [string |-> ...] a string standing where an array is expected.
ArrayIsArray(v) == DOMAIN v = {"array"}

\* const { requests } = req.body
undefined == [undefined |-> TRUE]
requestsOf(b) == IF "requests" \in DOMAIN b THEN b.requests ELSE undefined

\* req.user!.id: the requests are those authenticateToken lets through.
userId == "user-1"

\* The number of characters of a language code; codes are atoms in the model.
codeLength == [es |-> 2, fr |-> 2, de |-> 2, english |-> 7]

\* schemas.aiAnalysis.  Joi rejects keys the schema does not list.
aiAnalysisOptionsValid(options) ==
  /\ DOMAIN options \subseteq {"language", "confidence", "maxTokens"}
  /\ "language" \in DOMAIN options => codeLength[options.language] = 2
  /\ "confidence" \in DOMAIN options =>
       options.confidence >= 0 /\ options.confidence <= 1000
  /\ "maxTokens" \in DOMAIN options =>
       options.maxTokens >= 1 /\ options.maxTokens <= 4000

aiAnalysisValid(b) ==
  /\ DOMAIN b \subseteq {"text", "analysisType", "options"}
  /\ "text" \in DOMAIN b /\ Len(b.text) >= 1 /\ Len(b.text) <= 10000
  /\ "analysisType" \in DOMAIN b
  /\ b.analysisType \in {"sentiment", "classification", "summarization",
                         "translation", "entity_extraction"}
  /\ "options" \in DOMAIN b => aiAnalysisOptionsValid(b.options)

\* schemas.mlPrediction
mlPredictionOptionsValid(options) ==
  /\ DOMAIN options \subseteq {"threshold", "returnProbabilities"}
  /\ "threshold" \in DOMAIN options =>
       options.threshold >= 0 /\ options.threshold <= 1000
  /\ "returnProbabilities" \in DOMAIN options =>
       options.returnProbabilities \in BOOLEAN

mlPredictionValid(b) ==
  /\ DOMAIN b \subseteq {"features", "modelType", "options"}
  /\ "features" \in DOMAIN b /\ Len(b.features) >= 1
  /\ "modelType" \in DOMAIN b
  /\ b.modelType \in {"linear_regression", "classification", "clustering",
                      "anomaly_detection"}
  /\ "options" \in DOMAIN b => mlPredictionOptionsValid(b.options)

\* The response validateRequest sends when the body fails its schema.
validationFailed ==
  [status |-> 400, success |-> FALSE, error |-> "Validation failed"]

\* The limits of the batch routes.
batchAnalyzeLimit == 10
batchPredictLimit == 20

reaches(length, limit) == length >= limit
\* requests.length > limit
exceeds(length, limit) == length > limit

\* !Array.isArray(requests) || requests.length === 0 || requests.length > limit
sizeInvalid(requests, limit) ==
  \/ ~ArrayIsArray(requests)
  \/ Len(requests.array) = 0
  \/ exceeds(Len(requests.array), limit)

\* res.status(400).json({ success: false, error, timestamp })
sizeRejected(error) == [status |-> 400, success |-> FALSE, error |-> error]

-----------------------------------------------------------------------------
(* Rows and responses *)

null == "null"

\* The fields of source among names: an undefined property is left out.
defined(source, names) == [f \in DOMAIN source \cap names |-> source[f]]

optionsOf(request) ==
  IF "options" \in DOMAIN request THEN request.options ELSE [none |-> 0]

\* The data of prisma.aIAnalysisRequest.create
analysisRow(request, analysisResult) ==
  [ text           |-> request.text,
    analysisType   |-> request.analysisType,
    result         |-> analysisResult.result,
    processingTime |-> analysisResult.result.processingTime,
    tokensUsed     |-> analysisResult.metadata.tokensUsed,
    model          |-> analysisResult.metadata.model,
    version        |-> analysisResult.metadata.version,
    userId         |-> userId ]
  @@ defined(optionsOf(request), {"language", "confidence", "maxTokens"})

\* number || null: null when the number is undefined or 0
numberOrNull(source, name) ==
  IF name \in DOMAIN source /\ source[name] # 0 THEN source[name] ELSE null

\* object ? JSON.parse(JSON.stringify(object)) : null
copyOrNull(source, name) ==
  IF name \in DOMAIN source THEN source[name] ELSE null

\* The data of prisma.mLPrediction.create
predictionRow(request, predictionResult) ==
  [ features      |-> request.features,
    modelType     |-> request.modelType,
    threshold     |-> numberOrNull(optionsOf(request), "threshold"),
    prediction    |-> predictionResult.prediction,
    confidence    |-> predictionResult.confidence,
    probabilities |-> copyOrNull(predictionResult, "probabilities"),
    modelVersion  |-> predictionResult.modelInfo.version,
    accuracy      |-> predictionResult.modelInfo.accuracy,
    userId        |-> userId ]

\* The identifier the database gives the next row.
newId(rows) == Len(rows) + 1

\* The table after model.create({ data }) has succeeded.
created(rows, model, data) ==
  Append(rows, [model |-> model, id |-> newId(rows), data |-> data])

\* The error a rejected prisma call raises.
prismaError == [name |-> "PrismaClientKnownRequestError"]

\* errorHandler: the status and message of an AppError, 500 otherwise.
errorHandler(error) ==
  IF error.name = "AppError"
  THEN [status |-> error.statusCode, success |-> FALSE, error |-> error.message]
  ELSE [status |-> 500, success |-> FALSE, error |-> "Internal Server Error"]

\* res.json({ success: true, data: { id, ...result }, message })
completed(id, result, message) ==
  [ status  |-> 200,
    success |-> TRUE,
    data    |-> result @@ [id |-> id],
    message |-> message ]

-----------------------------------------------------------------------------
(* Promise.all over the callbacks requests.map starts *)

\* The place of a callback that has not settled yet.
pending == [pending |-> TRUE]
allPending(n) == [i \in 1..n |-> pending]

resolveNext(values, i, value) ==
  [values EXCEPT ![Least({k \in DOMAIN values : values[k] = pending})] = value]
\* Promise.all keeps each value at the position of its promise.
resolveAt(values, i, value) == [values EXCEPT ![i] = value]

someSettled(states) == \E i \in DOMAIN states : states[i].state = "settled"
\* Promise.all resolves once every promise has.
everySettled(states) == \A i \in DOMAIN states : states[i].state = "settled"

\* The least index whose callback has not finished its engine call, or 0.
nextQueued(states) == LeastOr({i \in DOMAIN states : states[i].state = "queued"}, 0)

\* r.success of an element that may lack the property
truthy(object, name) == name \in DOMAIN object /\ object[name] = TRUE

totalCount(values) == Len(values)
\* results.filter(r => r.success).length
successCount(values) ==
  Cardinality({i \in DOMAIN values : truthy(values[i], "success")})

\* return { index, id, success: true, ...result }
itemSucceeded(index, id, result) ==
  result @@ [index |-> index, id |-> id, success |-> TRUE]

itemFailedKeepingId(index, error) ==
  [index |-> index, success |-> FALSE, error |-> error, id |-> 0]
\* return { index, success: false, error }
itemFailed(index, error) == [index |-> index, success |-> FALSE, error |-> error]

\* res.json({ success: true, data: { results, summary }, message })
batchCompleted(values, total, message) ==
  [ status  |-> 200,
    success |-> TRUE,
    data    |-> [ results |-> values,
                  summary |-> [ total      |-> total,
                                successful |-> successCount(values),
                                failed     |-> total - successCount(values) ] ],
    message |-> message ]

-----------------------------------------------------------------------------
(* Requests the routes receive *)

Routes == {"analyze", "predict", "batch-analyze", "batch-predict"}

goodGame == <<"G","o","o","d"," ","g","a","m","e">>
hello == <<"h","e","l","l","o">>

\* Bodies posted to /analyze: two the schema accepts, and one each with a
\* language of the wrong length, an empty text, no text, an unknown kind.
AnalyzeBodies ==
  { [text |-> goodGame, analysisType |-> "sentiment"],
    [text |-> hello, analysisType |-> "translation", options |-> [language |-> "es"]],
    [text |-> hello, analysisType |-> "translation", options |-> [language |-> "english"]],
    [text |-> <<>>, analysisType |-> "sentiment"],
    [analysisType |-> "sentiment"],
    [text |-> goodGame, analysisType |-> "unsupported"] }

\* Bodies posted to /predict: two the schema accepts, and one each with no
\* feature, no features property, an unknown kind, a threshold above 1.
PredictBodies ==
  { [features |-> <<500, 2500>>, modelType |-> "classification"],
    [features |-> <<2500>>, modelType |-> "anomaly_detection",
     options |-> [threshold |-> 300]],
    [features |-> <<>>, modelType |-> "anomaly_detection"],
    [modelType |-> "clustering"],
    [features |-> <<0>>, modelType |-> "unsupported"],
    [features |-> <<0>>, modelType |-> "anomaly_detection",
     options |-> [threshold |-> 2000]] }

\* Elements of a batch posted to /batch-analyze; the batch routes apply no
\* schema to them.
AnalyzeItems ==
  { [text |-> goodGame, analysisType |-> "sentiment"],
    [text |-> hello, analysisType |-> "classification"],
    [text |-> goodGame, analysisType |-> "unsupported"],
    [analysisType |-> "sentiment"] }

\* Elements of a batch posted to /batch-predict.
PredictItems ==
  { [features |-> <<500, 2500>>, modelType |-> "classification"],
    [features |-> <<>>, modelType |-> "anomaly_detection"],
    [features |-> <<0>>, modelType |-> "unsupported"],
    [modelType |-> "clustering"] }

\* An array of n elements: first, then rest repeated.
padded(n, first, rest) == [i \in 1..n |-> IF i = 1 THEN first ELSE rest]

\* The values of requests: every array of at most MaxBatch elements, an array
\* of exactly limit elements and one of limit + 1, a string, and no value.
BatchBodies(elements, limit, first, rest) ==
  {[requests |-> [array |-> a]] :
     a \in SeqsUpTo(elements, MaxBatch)
           \cup {padded(limit, first, rest), padded(limit + 1, first, rest)}}
  \cup {[requests |-> [string |-> hello]], [text |-> hello]}

Bodies(r) ==
  CASE r = "analyze" -> AnalyzeBodies
    [] r = "predict" -> PredictBodies
    [] r = "batch-analyze" ->
         BatchBodies(AnalyzeItems, batchAnalyzeLimit,
                     [text |-> goodGame, analysisType |-> "sentiment"],
                     [text |-> goodGame, analysisType |-> "unsupported"])
    [] r = "batch-predict" ->
         BatchBodies(PredictItems, batchPredictLimit,
                     [features |-> <<500, 2500>>, modelType |-> "classification"],
                     [features |-> <<0>>, modelType |-> "unsupported"])

-----------------------------------------------------------------------------
(* The handlers of /analyze and /predict *)

\* A request reaches one of the four routes.
Receive ==
  /\ call = NoCall /\ phase = "idle"
  /\ \E r \in Routes : route' = r /\ body' \in Bodies(r)
  /\ phase' = "received"
  /\ UNCHANGED <<call, items, results, settled, store, response>>

\* validateRequest: next() when the body passes its schema, a 400 otherwise.
validateRequest(valid) ==
  /\ phase = "received"
  /\ IF valid
     THEN phase' = "validated" /\ UNCHANGED response
     ELSE phase' = "responded" /\ response' = validationFailed
  /\ UNCHANGED <<call, route, body, items, results, settled, store>>

ValidateAnalyze == route = "analyze" /\ validateRequest(aiAnalysisValid(body))

ValidatePredict == route = "predict" /\ validateRequest(mlPredictionValid(body))

\* The handler awaits the engine.  It has no catch block: what the engine
\* throws rejects the handler's promise, and asyncHandler passes the error to
\* errorHandler.
awaited(outcome) ==
  /\ phase = "validated"
  /\ items' = << [ state   |-> IF outcome.threw THEN "settled" ELSE "persisting",
                   raised  |-> outcome.threw,
                   outcome |-> outcome ] >>
  /\ IF outcome.threw
     THEN phase' = "responded" /\ response' = errorHandler(outcome.error)
     ELSE phase' = "persisting" /\ UNCHANGED response
  /\ UNCHANGED <<call, route, body, results, settled, store>>

Analyze ==
  /\ route = "analyze"
  /\ \E dt \in 0..MaxElapsed : \E dtOuter \in dt..MaxElapsed :
       awaited(processAnalysis(body, dt, dtOuter))

Predict ==
  /\ route = "predict"
  /\ \E noise \in Noises : awaited(makePrediction(body, noise))

\* prisma create resolves: the row is stored and the response sent.
persisted(model, data, message) ==
  /\ phase = "persisting"
  /\ store' = created(store, model, data)
  /\ items' = [items EXCEPT ![1].state = "settled"]
  /\ phase' = "responded"
  /\ response' = completed(newId(store), items[1].outcome.value, message)
  /\ UNCHANGED <<call, route, body, results, settled>>

AnalyzeCreated ==
  /\ route = "analyze"
  /\ persisted("aIAnalysisRequest", analysisRow(body, items[1].outcome.value),
               "Analysis completed successfully")

PredictCreated ==
  /\ route = "predict"
  /\ persisted("mLPrediction", predictionRow(body, items[1].outcome.value),
               "Prediction completed successfully")

\* prisma create rejects: the error reaches errorHandler.
notPersisted ==
  /\ phase = "persisting"
  /\ items' = [items EXCEPT ![1].state = "settled", ![1].raised = TRUE]
  /\ phase' = "responded"
  /\ response' = errorHandler(prismaError)
  /\ UNCHANGED <<call, route, body, results, settled, store>>

AnalyzeCreateFailed == route = "analyze" /\ notPersisted

PredictCreateFailed == route = "predict" /\ notPersisted

-----------------------------------------------------------------------------
(* The handlers of /batch-analyze and /batch-predict *)

\* The size check has failed: a 400 is sent and the handler returns.
batchRejected(error) ==
  /\ phase = "received"
  /\ phase' = "responded"
  /\ response' = sizeRejected(error)
  /\ UNCHANGED <<call, route, body, items, results, settled, store>>

\* The sequences that take their i-th element from the i-th set.
RECURSIVE choices(_)
choices(sets) ==
  IF sets = <<>> THEN {<<>>}
  ELSE {<<x>> \o rest : x \in Head(sets), rest \in choices(Tail(sets))}

\* What a call of the engine may give for one element.
analysisOutcomes(request) ==
  UNION {{processAnalysis(request, dt, dtOuter) : dtOuter \in dt..MaxElapsed} :
           dt \in 0..MaxElapsed}
predictionOutcomes(request) == {makePrediction(request, noise) : noise \in Noises}

\* requests.map starts one callback per element, in index order.  A callback
\* runs up to its await of the engine, and the engine awaits an analyzer that
\* has no await of its own: when map returns, every analyzer has computed its
\* result or thrown, and every callback is waiting for the engine's promise.
batchDispatched(outcomes) ==
  /\ phase = "received"
  /\ phase' = "dispatched"
  /\ items' = [i \in DOMAIN outcomes |->
                 [state |-> "queued", raised |-> FALSE, outcome |-> outcomes[i]]]
  /\ results' = allPending(Len(outcomes))
  /\ UNCHANGED <<call, route, body, settled, store, response>>

BatchAnalyzeStart ==
  /\ route = "batch-analyze"
  /\ IF sizeInvalid(requestsOf(body), batchAnalyzeLimit)
     THEN batchRejected("Requests must be an array with 1-10 items")
     ELSE \E outcomes \in choices([i \in DOMAIN body.requests.array |->
                                     analysisOutcomes(body.requests.array[i])]) :
            batchDispatched(outcomes)

BatchPredictStart ==
  /\ route = "batch-predict"
  /\ IF sizeInvalid(requestsOf(body), batchPredictLimit)
     THEN batchRejected("Requests must be an array with 1-20 items")
     ELSE \E outcomes \in choices([i \in DOMAIN body.requests.array |->
                                     predictionOutcomes(body.requests.array[i])]) :
            batchDispatched(outcomes)

\* The engine's promise of callback i settles, inside the callback's try
\* block: a rejection becomes the callback's failure value, a result is
\* handed to prisma.  The promises settle in the order of their callbacks.
itemAwaited(i, error) ==
  /\ phase = "dispatched"
  /\ IF items[i].outcome.threw
     THEN /\ items' = [items EXCEPT ![i].state = "settled", ![i].raised = TRUE]
          /\ results' = resolveAt(results, i, itemFailed(i - 1, error))
          /\ settled' = Append(settled, i)
     ELSE /\ items' = [items EXCEPT ![i].state = "persisting"]
          /\ UNCHANGED <<results, settled>>
  /\ UNCHANGED <<call, phase, route, body, store, response>>

BatchAnalyzeItem ==
  /\ route = "batch-analyze" /\ phase = "dispatched" /\ nextQueued(items) # 0
  /\ itemAwaited(nextQueued(items), "Analysis failed")

BatchPredictItem ==
  /\ route = "batch-predict" /\ phase = "dispatched" /\ nextQueued(items) # 0
  /\ itemAwaited(nextQueued(items), "Prediction failed")

\* The create of callback i resolves, in any order among the callbacks, once
\* every callback has issued its own: the callback returns its success value.
itemPersisted(i, model, data) ==
  /\ phase = "dispatched" /\ nextQueued(items) = 0
  /\ items[i].state = "persisting"
  /\ store' = created(store, model, data)
  /\ items' = [items EXCEPT ![i].state = "settled"]
  /\ results' = resolveAt(results, i,
                          itemSucceeded(i - 1, newId(store), items[i].outcome.value))
  /\ settled' = Append(settled, i)
  /\ UNCHANGED <<call, phase, route, body, response>>

BatchAnalyzeCreated ==
  /\ route = "batch-analyze"
  /\ \E i \in DOMAIN items :
       /\ items[i].state = "persisting"
       /\ itemPersisted(i, "aIAnalysisRequest",
                        analysisRow(body.requests.array[i], items[i].outcome.value))

BatchPredictCreated ==
  /\ route = "batch-predict"
  /\ \E i \in DOMAIN items :
       /\ items[i].state = "persisting"
       /\ itemPersisted(i, "mLPrediction",
                        predictionRow(body.requests.array[i], items[i].outcome.value))

itemWrittenThenFailed(i, error) ==
  /\ phase = "dispatched" /\ nextQueued(items) = 0
  /\ items[i].state = "persisting"
  /\ store' = created(store, "unknown", [none |-> 0])
  /\ items' = [items EXCEPT ![i].state = "settled", ![i].raised = TRUE]
  /\ results' = resolveAt(results, i, itemFailed(i - 1, error))
  /\ settled' = Append(settled, i)
  /\ UNCHANGED <<call, phase, route, body, response>>

\* The create of callback i rejects: the callback returns its failure value.
itemNotPersisted(i, error) ==
  /\ phase = "dispatched" /\ nextQueued(items) = 0
  /\ items[i].state = "persisting"
  /\ items' = [items EXCEPT ![i].state = "settled", ![i].raised = TRUE]
  /\ results' = resolveAt(results, i, itemFailed(i - 1, error))
  /\ settled' = Append(settled, i)
  /\ UNCHANGED <<call, phase, route, body, store, response>>

BatchAnalyzeCreateFailed ==
  /\ route = "batch-analyze"
  /\ \E i \in DOMAIN items : itemNotPersisted(i, "Analysis failed")

BatchPredictCreateFailed ==
  /\ route = "batch-predict"
  /\ \E i \in DOMAIN items : itemNotPersisted(i, "Prediction failed")

\* Promise.all has resolved: the summary is counted and the response sent.
batchResponded(message) ==
  /\ phase = "dispatched" /\ everySettled(items)
  /\ phase' = "responded"
  /\ response' = batchCompleted(results, Len(body.requests.array), message)
  /\ UNCHANGED <<call, route, body, items, results, settled, store>>

BatchAnalyzeRespond ==
  route = "batch-analyze" /\ batchResponded("Batch analysis completed")

BatchPredictRespond ==
  route = "batch-predict" /\ batchResponded("Batch predictions completed")

-----------------------------------------------------------------------------
(* The program: a direct call of a service, or a request to a route *)

Init ==
  /\ call \in {NoCall}
            \cup {[op |-> "processAnalysis", done |-> FALSE, request |-> r] :
                    r \in AnalysisRequests}
            \cup {[op |-> "makePrediction", done |-> FALSE, request |-> r] :
                    r \in PredictionRequests}
  /\ RouteIdle

\* The steps of the routes.
RouteNext ==
  \/ Receive
  \/ ValidateAnalyze
  \/ ValidatePredict
  \/ Analyze
  \/ Predict
  \/ AnalyzeCreated
  \/ PredictCreated
  \/ AnalyzeCreateFailed
  \/ PredictCreateFailed
  \/ BatchAnalyzeStart
  \/ BatchPredictStart
  \/ BatchAnalyzeItem
  \/ BatchPredictItem
  \/ BatchAnalyzeCreated
  \/ BatchPredictCreated
  \/ BatchAnalyzeCreateFailed
  \/ BatchPredictCreateFailed
  \/ BatchAnalyzeRespond
  \/ BatchPredictRespond

Next == ProcessAnalysisCall \/ MakePredictionCall \/ RouteNext

Spec == Init /\ [][Next]_vars

\* Every promise a callback awaits settles, and a handler whose promises
\* have settled goes on.
Fairness ==
  /\ WF_vars(BatchAnalyzeItem) /\ WF_vars(BatchPredictItem)
  /\ WF_vars(BatchAnalyzeCreated \/ BatchAnalyzeCreateFailed)
  /\ WF_vars(BatchPredictCreated \/ BatchPredictCreateFailed)
  /\ WF_vars(BatchAnalyzeRespond) /\ WF_vars(BatchPredictRespond)

\* The routes alone, every started step of a handler going on to its end.
RouteInit == call = NoCall /\ RouteIdle

LiveSpec == RouteInit /\ [][RouteNext]_vars /\ Fairness

-----------------------------------------------------------------------------
(* Properties of the batch routes *)

\* C1: the response of a batch of N elements of valid size, k of whose
\* elements raised while they were processed (in the engine or in the
\* create), holds N outcomes and the summary total = N, successful = N - k,
\* failed = k.
C1_BatchSummary ==
  (route \in {"batch-analyze", "batch-predict"} /\ phase = "responded"
     /\ response.status = 200) =>
    LET N == Len(body.requests.array)
        k == Cardinality({i \in DOMAIN items : items[i].raised})
    IN  /\ Len(items) = N
        /\ Len(response.data.results) = N
        /\ response.data.summary = [total |-> N, successful |-> N - k, failed |-> k]
        /\ response.data.summary.successful + response.data.summary.failed
             = response.data.summary.total

\* C1 witness: a batch of two elements has been answered and exactly one of
\* the two raised.
C1_OneOfTwoRaised ==
  /\ route = "batch-analyze" /\ phase = "responded" /\ response.status = 200
  /\ Len(items) = 2
  /\ Cardinality({i \in DOMAIN items : items[i].raised}) = 1
  /\ response.data.summary = [total |-> 2, successful |-> 1, failed |-> 1]

\* C2: whatever the order in which the callbacks settled, position i of the
\* results holds the outcome of input element i: its index is i - 1, it is a
\* failure exactly when element i raised, and a success carries the engine's
\* result for element i and the id of the row that stores element i.
C2_ResultsInInputOrder ==
  (route \in {"batch-analyze", "batch-predict"} /\ phase = "responded"
     /\ response.status = 200) =>
    \A i \in DOMAIN items :
      LET r == response.data.results[i]
          request == body.requests.array[i]
      IN  /\ r.index = i - 1
          /\ r.success = ~items[i].raised
          /\ r.success =>
               /\ [f \in DOMAIN items[i].outcome.value |-> r[f]] = items[i].outcome.value
               /\ r.id \in DOMAIN store /\ store[r.id].id = r.id
               /\ IF route = "batch-analyze"
                  THEN /\ r.analysisType = request.analysisType
                       /\ store[r.id].data.text = request.text
                       /\ store[r.id].data.analysisType = request.analysisType
                  ELSE /\ r.modelInfo.type = request.modelType
                       /\ store[r.id].data.features = request.features
                       /\ store[r.id].data.modelType = request.modelType

\* C2 witness: both elements of a batch succeeded, the second settling
\* before the first.
C2_SettledOutOfOrder ==
  /\ route = "batch-analyze" /\ phase = "responded" /\ response.status = 200
  /\ settled = <<2, 1>>
  /\ \A i \in DOMAIN items : response.data.results[i].success
  /\ body.requests.array[1] # body.requests.array[2]

\* C3: a batch is answered only when every callback has settled, an element
\* that raised leaves its siblings their own outcomes, a dispatched batch is
\* never answered with an error, and every dispatched batch is answered.
C3_AllCompleteJoin ==
  /\ []( (route \in {"batch-analyze", "batch-predict"} /\ phase = "responded"
            /\ items # <<>>) =>
           /\ response.status = 200 /\ response.success
           /\ \A i \in DOMAIN items :
                /\ items[i].state = "settled"
                /\ response.data.results[i] # pending
                /\ truthy(response.data.results[i], "success") = ~items[i].raised )
  /\ ( (route \in {"batch-analyze", "batch-predict"} /\ phase = "dispatched")
         ~> (phase = "responded" /\ response.status = 200) )

\* C3 witness: the first element of a batch raised in the engine, and the
\* second was processed and stored all the same.
C3_SiblingOfFailureSucceeded ==
  /\ route = "batch-predict" /\ phase = "responded" /\ response.status = 200
  /\ Len(items) = 2
  /\ items[1].raised /\ items[1].outcome.threw
  /\ ~items[2].raised /\ response.data.results[2].success
  /\ Len(store) = 1

\* C4: a requests value that is no array, is empty or has more than 10
\* (batch-analyze) or 20 (batch-predict) elements is answered 400 with
\* success false, no callback started and no row stored; an array of 1 to
\* 10 (20) elements is never answered 400.
C4_SizeValidation ==
  (route \in {"batch-analyze", "batch-predict"} /\ phase \notin {"idle", "received"}) =>
    LET requests == requestsOf(body)
        maxItems == IF route = "batch-analyze" THEN 10 ELSE 20
    IN  IF ArrayIsArray(requests) /\ Len(requests.array) >= 1
           /\ Len(requests.array) <= maxItems
        THEN response.status # 400
        ELSE /\ phase = "responded"
             /\ response.status = 400 /\ response.success = FALSE
             /\ items = <<>> /\ results = <<>> /\ store = <<>>

\* C4 witness: eleven elements posted to /batch-analyze have been rejected.
C4_ElevenRejected ==
  /\ route = "batch-analyze" /\ phase = "responded"
  /\ ArrayIsArray(requestsOf(body)) /\ Len(body.requests.array) = 11
  /\ response.status = 400 /\ items = <<>> /\ store = <<>>

-----------------------------------------------------------------------------
(* Properties of the dispatchers and of the single-item routes *)

\* C5: processAnalysis throws an Error whose message starts with
\* 'Unsupported analysis type' for every kind outside the five, and
\* makePrediction one that starts with 'Unsupported model type' for every
\* kind outside the four; for a kind of the enumeration and a request that
\* has its text (its features), the result is what the analyzer (scorer) of
\* that kind gives for the request, tagged with the kind.
C5_Dispatch ==
  /\ (call.op = "processAnalysis" /\ call.done) =>
       LET request == call.request
           outcome == call.outcome
       IN  IF request.analysisType \notin AnalysisType
           THEN /\ outcome.threw /\ outcome.error.name = "Error"
                /\ outcome.error.message =
                     <<"Unsupported analysis type: ", request.analysisType>>
           ELSE "text" \in DOMAIN request =>
                  /\ ~outcome.threw
                  /\ outcome.value.analysisType = request.analysisType
                  /\ \E dt \in 0..MaxElapsed :
                       outcome.value.result.data =
                         CASE request.analysisType = "sentiment" ->
                                analyzeSentiment(request.text, dt)
                           [] request.analysisType = "classification" ->
                                classifyText(request.text, dt)
                           [] request.analysisType = "summarization" ->
                                summarizeText(request.text,
                                              option(request, "maxTokens", 100), dt)
                           [] request.analysisType = "translation" ->
                                translateText(request.text,
                                              option(request, "language", "es"), dt)
                           [] request.analysisType = "entity_extraction" ->
                                extractEntities(request.text, dt)
  /\ (call.op = "makePrediction" /\ call.done) =>
       LET request == call.request
           outcome == call.outcome
       IN  IF request.modelType \notin ModelType
           THEN /\ outcome.threw /\ outcome.error.name = "Error"
                /\ outcome.error.message =
                     <<"Unsupported model type: ", request.modelType>>
           ELSE "features" \in DOMAIN request =>
                  /\ ~outcome.threw
                  /\ outcome.value.modelInfo.type = request.modelType
                  /\ \E noise \in Noises :
                       LET scored ==
                             CASE request.modelType = "linear_regression" ->
                                    linearRegression(request.features, noise)
                               [] request.modelType = "classification" ->
                                    classification(request.features,
                                      option(request, "returnProbabilities", FALSE))
                               [] request.modelType = "clustering" ->
                                    clustering(request.features)
                               [] request.modelType = "anomaly_detection" ->
                                    anomalyDetection(request.features,
                                                     option(request, "threshold", 500))
                       IN  /\ outcome.value.prediction = scored.prediction
                           /\ outcome.value.confidence = scored.confidence

\* C5 witness: makePrediction has been called with a kind outside the
\* enumeration and has thrown.
C5_UnsupportedModelThrown ==
  /\ call.op = "makePrediction" /\ call.done
  /\ call.request.modelType = "unsupported"
  /\ call.outcome.threw
  /\ call.outcome.error.message[1] = "Unsupported model type: "

\* C6: a call of an engine with an unsupported kind, or with a request the
\* analyzer cannot read, ends by throwing and stores nothing; in /analyze and
\* /predict an engine error is answered through errorHandler with no row
\* stored, and a row is stored only once the engine has returned, holding
\* what the engine returned.
C6_SingleItemErrorsPropagate ==
  /\ (call.op = "processAnalysis" /\ call.done
        /\ (call.request.analysisType \notin AnalysisType
              \/ "text" \notin DOMAIN call.request)) =>
       call.outcome.threw /\ store = <<>>
  /\ (call.op = "makePrediction" /\ call.done
        /\ (call.request.modelType \notin ModelType
              \/ "features" \notin DOMAIN call.request)) =>
       call.outcome.threw /\ store = <<>>
  /\ route \in {"analyze", "predict"} =>
       /\ (items # <<>> /\ items[1].outcome.threw) =>
            /\ phase = "responded"
            /\ response.status = 500 /\ response.success = FALSE
            /\ store = <<>>
       /\ store # <<>> =>
            /\ Len(store) = 1 /\ items # <<>> /\ ~items[1].outcome.threw
            /\ response.status = 200 /\ response.data.id = store[1].id
            /\ IF route = "analyze"
               THEN store[1].data.result = items[1].outcome.value.result
               ELSE store[1].data.prediction = items[1].outcome.value.prediction
       /\ response.status = 200 => Len(store) = 1

\* C6 witness: processAnalysis has been called with an unsupported kind; the
\* call has thrown and nothing is stored.
C6_EngineErrorThrown ==
  /\ call.op = "processAnalysis" /\ call.done
  /\ call.request.analysisType = "unsupported" /\ "text" \in DOMAIN call.request
  /\ call.outcome.threw /\ call.outcome.error.name = "Error"
  /\ store = <<>>

\* An AnalysisResponse without its two processing times.
withoutProcessingTime(outcome) ==
  IF outcome.threw THEN outcome
  ELSE Returned([outcome.value EXCEPT !.result.processingTime = 0,
                                      !.result.data.processingTime = 0])

\* A prediction response without the prediction of a linear regression.
withoutPerturbation(outcome) ==
  IF outcome.threw \/ outcome.value.modelInfo.type # "linear_regression"
  THEN outcome
  ELSE Returned([outcome.value EXCEPT !.prediction = 0])

C8_ConfidenceInUnitInterval ==
  /\ (call.op = "processAnalysis" /\ call.done /\ ~call.outcome.threw) =>
       /\ call.outcome.value.result.confidence # NaN
       /\ call.outcome.value.result.confidence >= 0
       /\ call.outcome.value.result.confidence <= 1000
  /\ (call.op = "makePrediction" /\ call.done /\ ~call.outcome.threw) =>
       /\ call.outcome.value.confidence # NaN
       /\ call.outcome.value.confidence >= 0
       /\ call.outcome.value.confidence <= 1000

-----------------------------------------------------------------------------
(* Properties of analyzeSentiment *)

\* C9: the confidence is min(0.9, 0.5 + 0.1 * |p - n|), between 0.5 and 0.9,
\* when the label is positive or negative, and 0.6 when it is neutral.
C9_SentimentConfidence ==
  (call.op = "analyzeSentiment" /\ call.done) =>
    LET result == call.outcome.value
        distance == IF result.scores.positive >= result.scores.negative
                    THEN result.scores.positive - result.scores.negative
                    ELSE result.scores.negative - result.scores.positive
    IN  IF result.sentiment = "neutral"
        THEN result.confidence = 600
        ELSE /\ result.sentiment \in {"positive", "negative"}
             /\ result.confidence >= 500 /\ result.confidence <= 900
             /\ result.confidence =
                  IF 500 + 100 * distance < 900 THEN 500 + 100 * distance ELSE 900

\* C9 witness: a text with five positive words and no negative one, where
\* 0.5 + 0.1 * |p - n| reaches 1.0 and the confidence is the cap 0.9.
C9_ConfidenceCapped ==
  /\ call.op = "analyzeSentiment" /\ call.done
  /\ call.outcome.value.scores.positive = 5
  /\ call.outcome.value.scores.negative = 0
  /\ call.outcome.value.confidence = 900

\* C10 (as stated): the words are the pieces of the lower-cased text between
\* whitespace characters; p and n count the words of the positive and of the
\* negative list; the label is the sign of p - n; the counts reported are p,
\* n and wordCount - p - n.
C10_SplitOnWhitespace ==
  (call.op = "analyzeSentiment" /\ call.done) =>
    LET text == toLowerCase(call.text)
        result == call.outcome.value
        separators == {" ", "\t", "\n", "\r"}
        isWord(i, j) == /\ i = 1 \/ text[i - 1] \in separators
                        /\ j = Len(text) \/ text[j + 1] \in separators
        occurrences(list) ==
          Cardinality({w \in (1..Len(text)) \X (1..Len(text)) :
                         /\ w[1] <= w[2] /\ isWord(w[1], w[2])
                         /\ arrayIncludes(list, SubSeq(text, w[1], w[2]))})
        p == occurrences(positiveWords)
        n == occurrences(negativeWords)
        wordCount == Cardinality({i \in 1..Len(text) : text[i] \in separators}) + 1
    IN  /\ result.sentiment = IF p > n THEN "positive"
                              ELSE IF p < n THEN "negative" ELSE "neutral"
        /\ result.scores = [positive |-> p, negative |-> n, neutral |-> wordCount - p - n]

\* C10 (amended): the words are the pieces of the lower-cased text between
\* space characters, so that a tab separates nothing and two spaces in a row,
\* or a space at either end, make an empty word; p and n count the words of
\* the positive and of the negative list; the label is the sign of p - n; the
\* counts reported are p, n and wordCount - p - n.
C10_SplitOnSpace ==
  (call.op = "analyzeSentiment" /\ call.done) =>
    LET text == toLowerCase(call.text)
        result == call.outcome.value
        isWord(i, j) == /\ i = 1 \/ text[i - 1] = " "
                        /\ j = Len(text) \/ text[j + 1] = " "
        occurrences(list) ==
          Cardinality({w \in (1..Len(text)) \X (1..Len(text)) :
                         /\ w[1] <= w[2] /\ isWord(w[1], w[2])
                         /\ arrayIncludes(list, SubSeq(text, w[1], w[2]))})
        p == occurrences(positiveWords)
        n == occurrences(negativeWords)
        wordCount == Cardinality({i \in 1..Len(text) : text[i] = " "}) + 1
    IN  /\ result.sentiment = IF p > n THEN "positive"
                              ELSE IF p < n THEN "negative" ELSE "neutral"
        /\ result.scores = [positive |-> p, negative |-> n, neutral |-> wordCount - p - n]

\* C10 witness: a text in which a tab joins two listed words into one word
\* that is in neither list, next to a listed word in upper case set off by
\* spaces.
C10_TabJoinsWords ==
  /\ call.op = "analyzeSentiment" /\ call.done
  /\ call.text = <<"g","o","o","d","\t","g","o","o","d"," ","B","a","d"," ">>
  /\ call.outcome.value.sentiment = "negative"
  /\ call.outcome.value.scores = [positive |-> 0, negative |-> 1, neutral |-> 2]

-----------------------------------------------------------------------------
(* Properties of classifyText *)

\* The categories whose score is the highest of the five.
topScored(allScores) ==
  {c \in 1..Len(allScores) :
     \A d \in 1..Len(allScores) : allScores[d].score <= allScores[c].score}

\* C11 (as stated): the category returned is the first, in the order
\* technology, business, science, entertainment, sports, of those with the
\* highest score; a text holding no keyword is classified as technology.
C11_FirstOfTiedWins ==
  (call.op = "classifyText" /\ call.done) =>
    LET result == call.outcome.value
        first == Least(topScored(result.allScores))
    IN  /\ result.category = result.allScores[first].category
        /\ (\A c \in 1..5 : result.allScores[c].score = 0) =>
             result.category = "technology"

\* C11 (amended): the category returned is the last, in the order technology,
\* business, science, entertainment, sports, of those with the highest score
\* (a later category replaces the current winner unless the current winner's
\* score is strictly greater); a text holding no keyword is classified as
\* sports.
C11_LastOfTiedWins ==
  (call.op = "classifyText" /\ call.done) =>
    LET result == call.outcome.value
        tied == topScored(result.allScores)
        last == CHOOSE c \in tied : \A d \in tied : d <= c
    IN  /\ result.category = result.allScores[last].category
        /\ (\A c \in 1..5 : result.allScores[c].score = 0) =>
             result.category = "sports"

\* C11 witness: technology and business tie at the highest score, above the
\* other three, and the later of the two, business, is returned.
C11_TieGoesToLater ==
  /\ call.op = "classifyText" /\ call.done
  /\ call.outcome.value.allScores[1].score = 1
  /\ call.outcome.value.allScores[2].score = 1
  /\ \A c \in 3..5 : call.outcome.value.allScores[c].score = 0
  /\ call.outcome.value.category = "business"

\* C12: allScores lists technology, business, science, entertainment, sports
\* in that order; each score is the number of the category's six keywords that
\* occur somewhere in the lower-cased text, each counted once, so it is
\* between 0 and 6; each confidence is min(0.95, 0.2 * score + 0.1); the
\* category returned has the highest score and its confidence is returned.
C12_KeywordScores ==
  (call.op = "classifyText" /\ call.done) =>
    LET result == call.outcome.value
        text == toLowerCase(call.text)
        occurs(k) == \E i \in 1..Len(text) : \E j \in i..Len(text) :
                       SubSeq(text, i, j) = k
        names == <<"technology", "business", "science", "entertainment", "sports">>
    IN  /\ Len(result.allScores) = 5
        /\ \A c \in 1..5 :
             LET entry == result.allScores[c]
                 keywords == categories[c].keywords
             IN  /\ entry.category = names[c]
                 /\ Len(keywords) = 6
                 /\ entry.score = Cardinality({k \in 1..6 : occurs(keywords[k])})
                 /\ entry.score >= 0 /\ entry.score <= 6
                 /\ entry.confidence =
                      IF 200 * entry.score + 100 < 950
                      THEN 200 * entry.score + 100 ELSE 950
        /\ \E c \in topScored(result.allScores) :
             /\ result.category = result.allScores[c].category
             /\ result.confidence = result.allScores[c].confidence

\* C12 witness: the text holds "ai" twice and four more technology
\* keywords; technology scores 5 and the confidence is the cap 0.95.
C12_RepeatedKeywordCountedOnce ==
  /\ call.op = "classifyText" /\ call.done
  /\ Cardinality({i \in 1..(Len(call.text) - 1) :
                    toLowerCase(SubSeq(call.text, i, i + 1)) = <<"a","i">>}) = 2
  /\ call.outcome.value.allScores[1].score = 5
  /\ call.outcome.value.category = "technology"
  /\ call.outcome.value.confidence = 950

-----------------------------------------------------------------------------
(* Properties of the callbacks of the batch routes *)

\* C13: in a batch, a settled element whose engine call threw (an unsupported
\* kind, a missing text or missing features) or whose create was rejected has
\* the outcome { index, success: false, error } with the route's fixed message
\* and nothing else, no id and no result; every other settled element has
\* success true, the id of its stored row and the fields the engine returned
\* for it.
C13_ItemFailuresCaptured ==
  (route \in {"batch-analyze", "batch-predict"} /\ phase \in {"dispatched", "responded"}) =>
    \A i \in DOMAIN items :
      items[i].state = "settled" =>
        IF items[i].outcome.threw \/ items[i].raised
        THEN results[i] =
               [ index   |-> i - 1,
                 success |-> FALSE,
                 error   |-> IF route = "batch-analyze" THEN "Analysis failed"
                             ELSE "Prediction failed" ]
        ELSE /\ results[i].success = TRUE
             /\ results[i].index = i - 1
             /\ \E k \in DOMAIN store : store[k].id = results[i].id
             /\ "error" \notin DOMAIN results[i]
             /\ \A f \in DOMAIN items[i].outcome.value :
                  results[i][f] = items[i].outcome.value[f]

\* C13 witness: a batch of two analyses has been answered; the first element
\* had no text and its analyzer threw a TypeError, the second was analysed and
\* carries its result.
C13_FaultyItemBesideResult ==
  /\ route = "batch-analyze" /\ phase = "responded"
  /\ Len(items) = 2
  /\ items[1].outcome.threw /\ items[1].outcome.error = TypeError
  /\ results[1] = [index |-> 0, success |-> FALSE, error |-> "Analysis failed"]
  /\ ~items[2].outcome.threw /\ ~items[2].raised
  /\ results[2].success /\ results[2].result = items[2].outcome.value.result

\* The row a batch stores for its element i
rowOf(i) ==
  IF route = "batch-analyze"
  THEN [model |-> "aIAnalysisRequest",
        data |-> analysisRow(body.requests.array[i], items[i].outcome.value)]
  ELSE [model |-> "mLPrediction",
        data |-> predictionRow(body.requests.array[i], items[i].outcome.value)]

\* C30: in a batch an element is reported successful only if its engine call
\* and its create both succeeded: an element whose engine call threw writes no
\* row, an element whose create was rejected is reported as failed; when the
\* batch is answered the number of rows it stored is summary.successful, and
\* each successful outcome has the id of its own row.
C30_StoredIffSuccessful ==
  (route \in {"batch-analyze", "batch-predict"}) =>
    LET successful == {i \in DOMAIN items :
                         items[i].state = "settled" /\ results[i].success = TRUE}
    IN  /\ \A i \in successful : ~items[i].outcome.threw /\ ~items[i].raised
        /\ \A i \in DOMAIN items :
             (items[i].state = "settled" /\ (items[i].outcome.threw \/ items[i].raised))
               => results[i].success = FALSE
        /\ Len(store) = Cardinality(successful)
        /\ \A i \in successful :
             \E k \in DOMAIN store :
               /\ store[k].id = results[i].id
               /\ store[k].model = rowOf(i).model
               /\ store[k].data = rowOf(i).data
        /\ \A i \in successful : \A j \in successful :
             results[i].id = results[j].id => i = j
        /\ \A k \in DOMAIN store : \A l \in DOMAIN store :
             store[k].id = store[l].id => k = l
        /\ (phase = "responded" /\ response.status = 200) =>
             Len(store) = response.data.summary.successful
        /\ (phase = "responded" /\ response.status # 200) => store = <<>>

\* C30 witness: a batch of two predictions has been answered; no engine call
\* threw, the create of the first element was rejected and the second
\* element's row is the only one stored, under the id its outcome carries.
C30_RejectedCreateBesideStoredRow ==
  /\ route = "batch-predict" /\ phase = "responded" /\ response.status = 200
  /\ Len(items) = 2
  /\ ~items[1].outcome.threw /\ items[1].raised
  /\ ~items[2].outcome.threw /\ ~items[2].raised
  /\ response.data.summary.successful = 1
  /\ Len(store) = 1
  /\ store[1].id = response.data.results[2].id
  /\ response.data.results[1].success = FALSE

-----------------------------------------------------------------------------
(* Properties of summarizeText *)

\* The indices at which a sentence of text starts: a character that is no
\* terminator, at the start or after a terminator, whose run up to the next
\* terminator holds a character that is no whitespace.
sentenceStarts(text) ==
  {i \in 1..Len(text) :
     /\ text[i] \notin {".", "!", "?"}
     /\ i = 1 \/ text[i - 1] \in {".", "!", "?"}
     /\ \E j \in i..Len(text) :
          /\ text[j] \notin {".", "!", "?", " ", "\t", "\n", "\r"}
          /\ \A m \in i..j : text[m] \notin {".", "!", "?"}}

\* The sentence of text that starts at i, up to the next terminator.
sentenceAt(text, i) ==
  SubSeq(text, i, CHOOSE j \in i..Len(text) :
                    /\ \A m \in i..j : text[m] \notin {".", "!", "?"}
                    /\ j = Len(text) \/ text[j + 1] \in {".", "!", "?"})

\* C14: with n the number of segments of the text between terminators . ! ?
\* that hold a character other than whitespace, the summary is the first
\* k = min(3, max(1, floor(0.3 * n))) of them in text order, each but the last
\* followed by ". " and the last by "." (just "." when there is none),
\* whatever maxTokens is.
C14_FirstSentencesJoined ==
  (call.op = "summarizeText" /\ call.done) =>
    LET text == call.text
        starts == sentenceStarts(text)
        n == Cardinality(starts)
        floor == CHOOSE f \in 0..n : 10 * f <= 3 * n /\ 3 * n < 10 * (f + 1)
        k == IF floor < 1 THEN 1 ELSE IF floor > 3 THEN 3 ELSE floor
        taken == IF k < n THEN k ELSE n
        start(r) == CHOOSE i \in starts : Cardinality({j \in starts : j <= i}) = r
        expected == IF taken = 0 THEN <<".">>
                    ELSE Concat([r \in 1..taken |->
                                   sentenceAt(text, start(r)) \o
                                   (IF r < taken THEN <<".", " ">> ELSE <<".">>)])
    IN  call.outcome.value.summary = expected

\* C14 witness: a text of eight sentences has been summarized with maxTokens
\* 1; the summary is its first two sentences.
C14_TwoOfEightSentences ==
  /\ call.op = "summarizeText" /\ call.done
  /\ call.maxTokens = 1
  /\ call.text = <<"a","!","b","?","c","."," ","d",".","a","!","b","?","c","."," ","d",".">>
  /\ call.outcome.value.summary = <<"a","."," ","b",".">>

\* C15 (as stated): for a non-empty text, originalLength is the number of
\* characters of the text and summaryLength, the number of characters of the
\* summary, is strictly smaller.
C15_SummaryShorter ==
  (call.op = "summarizeText" /\ call.done /\ call.text # <<>>) =>
    /\ call.outcome.value.originalLength = Len(call.text)
    /\ call.outcome.value.summaryLength = Len(call.outcome.value.summary)
    /\ call.outcome.value.summaryLength < call.outcome.value.originalLength

\* C15 (amended): for a non-empty text, originalLength is the number of
\* characters of the text and summaryLength the number of characters of the
\* summary; summaryLength is at most originalLength + 1, and it is strictly
\* smaller than originalLength when the text holds two sentences or more.
C15_SummaryAtMostOneLonger ==
  (call.op = "summarizeText" /\ call.done /\ call.text # <<>>) =>
    /\ call.outcome.value.originalLength = Len(call.text)
    /\ call.outcome.value.summaryLength = Len(call.outcome.value.summary)
    /\ call.outcome.value.summaryLength <= call.outcome.value.originalLength + 1
    /\ Cardinality(sentenceStarts(call.text)) >= 2 =>
         call.outcome.value.summaryLength < call.outcome.value.originalLength

\* C15 witness: a text with no terminator has been summarized; the summary is
\* the text followed by "." and is one character longer than the text.
C15_SummaryLongerThanText ==
  /\ call.op = "summarizeText" /\ call.done
  /\ call.text = <<"n","o">>
  /\ call.outcome.value.summary = <<"n","o",".">>
  /\ call.outcome.value.summaryLength = call.outcome.value.originalLength + 1

-----------------------------------------------------------------------------
(* Properties of translateText *)

\* s with every occurrence of token replaced by word.  No token of the
\* dictionary overlaps itself, so the occurrences are disjoint.
withEvery(s, token, word) ==
  LET occursAt(k) == /\ k >= 1 /\ k + Len(token) - 1 <= Len(s)
                     /\ SubSeq(s, k, k + Len(token) - 1) = token
  IN  Concat([i \in 1..Len(s) |->
                IF occursAt(i) THEN word
                ELSE IF \E k \in (i - Len(token) + 1)..(i - 1) : occursAt(k) THEN <<>>
                ELSE <<s[i]>>])

\* C16: for target language es or fr, translatedText is the lower-cased text
\* in which every hello, then every world, then every good, then every
\* morning, then every thank you of the text so far has been replaced by its
\* translation; for another target language it is the lower-cased text;
\* confidence is 0.85, sourceLanguage is en, originalText is the text given.
C16_EntriesAppliedInOrder ==
  (call.op = "translateText" /\ call.done) =>
    LET result == call.outcome.value
        lower == toLowerCase(call.text)
        tokens == << <<"h","e","l","l","o">>, <<"w","o","r","l","d">>,
                     <<"g","o","o","d">>, <<"m","o","r","n","i","n","g">>,
                     <<"t","h","a","n","k"," ","y","o","u">> >>
        entries == translations[call.targetLanguage]
        step1 == withEvery(lower, tokens[1], entries[1].translated)
        step2 == withEvery(step1, tokens[2], entries[2].translated)
        step3 == withEvery(step2, tokens[3], entries[3].translated)
        step4 == withEvery(step3, tokens[4], entries[4].translated)
        step5 == withEvery(step4, tokens[5], entries[5].translated)
    IN  /\ result.originalText = call.text
        /\ result.sourceLanguage = "en"
        /\ result.targetLanguage = call.targetLanguage
        /\ result.confidence = 850
        /\ IF call.targetLanguage \in {"es", "fr"}
           THEN /\ Len(entries) = 5
                /\ \A k \in 1..5 : entries[k].english = tokens[k]
                /\ result.translatedText = step5
           ELSE result.translatedText = lower

\* C16 witness: a text holding Hello twice and world once has been
\* translated to French; both occurrences of hello are replaced.
C16_EveryOccurrenceReplaced ==
  /\ call.op = "translateText" /\ call.done
  /\ call.targetLanguage = "fr"
  /\ call.text = <<"H","e","l","l","o","H","e","l","l","o","w","o","r","l","d">>
  /\ call.outcome.value.translatedText =
       <<"b","o","n","j","o","u","r","b","o","n","j","o","u","r","m","o","n","d","e">>

-----------------------------------------------------------------------------
(* Properties of extractEntities *)

\* C17: the entities are those of type email, then phone, then date, then
\* url, then money; those of one type are the matches of its pattern, one
\* entity per match, in the order text.match lists them; every entity has
\* confidence 0.9, startIndex the zero-based index of the first occurrence
\* of its text in the input and endIndex that index plus the length of its
\* text, so entities with equal texts have equal indices; totalEntities is
\* the number of entities.
C17_EntitiesByTypeThenMatch ==
  (call.op = "extractEntities" /\ call.done) =>
    LET text == call.text
        entities == call.outcome.value.entities
        rank(type) == CHOOSE t \in 1..5 :
                        <<"email", "phone", "date", "url", "money">>[t] = type
        firstAt(m) == CHOOSE i \in 0..(Len(text) - Len(m)) :
                        /\ SubSeq(text, i + 1, i + Len(m)) = m
                        /\ \A j \in 0..(i - 1) : SubSeq(text, j + 1, j + Len(m)) # m
    IN  /\ call.outcome.value.totalEntities = Len(entities)
        /\ \A i \in 1..Len(entities) :
             /\ entities[i].type \in {"email", "phone", "date", "url", "money"}
             /\ entities[i].confidence = 900
             /\ entities[i].startIndex = firstAt(entities[i].text)
             /\ entities[i].endIndex = firstAt(entities[i].text) + Len(entities[i].text)
             /\ \A j \in 1..Len(entities) :
                  /\ i < j => rank(entities[i].type) <= rank(entities[j].type)
                  /\ entities[i].text = entities[j].text =>
                       /\ entities[i].startIndex = entities[j].startIndex
                       /\ entities[i].endIndex = entities[j].endIndex
        /\ \A type \in {"email", "phone", "date", "url", "money"} :
             LET matches == matchAll(type, text, 1)
                 places == {i \in 1..Len(entities) : entities[i].type = type}
             IN  /\ Cardinality(places) = Len(matches)
                 /\ \A k \in 1..Len(matches) :
                      entities[Least(places) + k - 1].text = matches[k]

\* C17 witness: the text holds the same phone number twice, the first time
\* right after a digit, where the pattern does not match; the one entity
\* carries the indices of the first occurrence, 1 and 13, and not those of
\* the match.
C17_IndicesOfFirstOccurrence ==
  /\ call.op = "extractEntities" /\ call.done
  /\ call.text = <<"9">> \o <<"5","5","5","-","1","2","3","-","4","5","6","7"," ">> \o <<"5","5","5","-","1","2","3","-","4","5","6","7"," ">>
  /\ call.outcome.value.totalEntities = 1
  /\ call.outcome.value.entities[1].type = "phone"
  /\ call.outcome.value.entities[1].startIndex = 1
  /\ call.outcome.value.entities[1].endIndex = 13

-----------------------------------------------------------------------------
(* Properties of linearRegression and classification *)

\* bias + the sum of features[i] * weights[i] over the first five features at
\* most, in micro; bias and weights in milli.
sumOfFive(features, weights, bias) ==
  LET term(i) == IF i <= Len(features) THEN features[i] * weights[i] ELSE 0
  IN  bias * 1000 + term(1) + term(2) + term(3) + term(4) + term(5)

\* C18: the prediction of linearRegression is the rounding to 3 decimals of a
\* value at most 0.05 away from 1.2 + 0.5 f1 - 0.3 f2 + 0.8 f3 + 0.2 f4
\* - 0.1 f5 over the features present, so it is at most 0.0505 away from it;
\* a sixth feature changes nothing; confidence is 0.85.
C18_RegressionPrediction ==
  (call.op = "linearRegression" /\ call.done) =>
    LET result == call.outcome.value
        exact == sumOfFive(call.features, <<500, -300, 800, 200, -100>>, 1200)
    IN  /\ result.prediction * 1000 - exact <= 50500
        /\ exact - result.prediction * 1000 <= 50500
        /\ result.confidence = 850

\* C18 witness: six features, the sixth of them 1.0, and the prediction is
\* within the perturbation of the sum over the first five, 1.2 + 0.5 - 0.3
\* + 0.8 + 0.2 - 0.1 = 2.3.
C18_SixthFeatureIgnored ==
  /\ call.op = "linearRegression" /\ call.done
  /\ call.features = <<1000, 1000, 1000, 1000, 1000, 1000>>
  /\ call.outcome.value.prediction >= 2250
  /\ call.outcome.value.prediction <= 2350

\* C19 (as stated): modelInfo.coefficients has as many entries as there are
\* features, and they are the leading entries of the weight vector, in order.
C19_CoefficientPerFeature ==
  (call.op = "linearRegression" /\ call.done) =>
    LET coefficients == call.outcome.value.modelInfo.coefficients
    IN  /\ Len(coefficients) = Len(call.features)
        /\ \A i \in 1..Len(coefficients) :
             i <= 5 => coefficients[i] = <<500, -300, 800, 200, -100>>[i]

\* C19 (amended): modelInfo.coefficients has min(number of features, 5)
\* entries, the weights used in the sum, and they are the leading entries of
\* the weight vector, in order.
C19_CoefficientPerWeightUsed ==
  (call.op = "linearRegression" /\ call.done) =>
    LET coefficients == call.outcome.value.modelInfo.coefficients
    IN  /\ Len(coefficients) = IF Len(call.features) < 5 THEN Len(call.features) ELSE 5
        /\ \A i \in 1..Len(coefficients) :
             coefficients[i] = <<500, -300, 800, 200, -100>>[i]

\* C19 witness: six features were given and the coefficients are the five
\* weights.
C19_FiveCoefficientsForSix ==
  /\ call.op = "linearRegression" /\ call.done
  /\ Len(call.features) = 6
  /\ call.outcome.value.modelInfo.coefficients = <<500, -300, 800, 200, -100>>

C21_ProbabilitiesOnRequest ==
  LET requested ==
        IF call.op = "classification" THEN call.returnProbabilities
        ELSE /\ "options" \in DOMAIN call.request
             /\ "returnProbabilities" \in DOMAIN call.request.options
             /\ call.request.options.returnProbabilities
      result == call.outcome.value
  IN  ( /\ call.done
        /\ \/ call.op = "classification"
           \/ /\ call.op = "makePrediction"
              /\ call.request.modelType = "classification"
              /\ ~call.outcome.threw ) =>
        IF requested
        THEN /\ "probabilities" \in DOMAIN result
             /\ DOMAIN result.probabilities = {"positive", "negative"}
             /\ result.probabilities.positive \in 0..1000
             /\ result.probabilities.negative \in 0..1000
             /\ result.probabilities.positive + result.probabilities.negative
                  \in 990..1010
        ELSE "probabilities" \notin DOMAIN result

\* C21 witness: makePrediction has classified a vector with
\* returnProbabilities true; the probabilities differ and sum to 1.
C21_ProbabilitiesThroughMakePrediction ==
  /\ call.op = "makePrediction" /\ call.done /\ ~call.outcome.threw
  /\ call.request.modelType = "classification"
  /\ "probabilities" \in DOMAIN call.outcome.value
  /\ call.outcome.value.probabilities.positive > 500
  /\ call.outcome.value.probabilities.positive
       + call.outcome.value.probabilities.negative = 1000

-----------------------------------------------------------------------------
(* Properties of clustering *)

\* The three centroids, and the square of the distance from features to one
\* of them over the coordinates both have, at most three.
threeCentroids == << <<1000, 2000, 1500>>, <<-1000, 500, -500>>, <<2500, -1000, 3000>> >>

squareTo(features, c) ==
  LET term(i) == IF i <= Len(features)
                 THEN (features[i] - threeCentroids[c][i]) * (features[i] - threeCentroids[c][i])
                 ELSE 0
  IN  term(1) + term(2) + term(3)

-----------------------------------------------------------------------------
(* Properties of anomalyDetection *)

\* The normal ranges, the indices below 5 of the features outside their
\* range, and the sum of their distances to the nearer bound, in milli.
fiveRanges == << <<-2000, 2000>>, <<-1000, 3000>>, <<0, 4000>>, <<-3000, 1000>>, <<-1000, 2000>> >>

outside(features) ==
  {i \in 1..5 : /\ i <= Len(features)
                /\ features[i] < fiveRanges[i][1] \/ features[i] > fiveRanges[i][2]}

accumulated(features) ==
  LET toBound(i) == IF features[i] < fiveRanges[i][1]
                    THEN fiveRanges[i][1] - features[i]
                    ELSE features[i] - fiveRanges[i][2]
      term(i) == IF i \in outside(features) THEN toBound(i) ELSE 0
  IN  term(1) + term(2) + term(3) + term(4) + term(5)

\* The label for a threshold: anomaly when min(1, accumulated / (2 * length))
\* is above it.
labelled(features, threshold) ==
  LET den == 2 * Len(features)
      capped == IF accumulated(features) < 1000 * den
                THEN accumulated(features) ELSE 1000 * den
  IN  IF capped > threshold * den THEN "anomaly" ELSE "normal"

\* C24: anomalyDetection reports anomalyScore = min(1, accumulated /
\* (2 * number of features)), rounded to 3 decimals and always between 0 and
\* 1, and outOfRangeFeatures, the number of features below index 5 outside
\* their range; the label is anomaly when the score is strictly above the
\* threshold and normal otherwise; the threshold is the one given, 0.5 when
\* makePrediction is given none, and it is the threshold reported.
C24_AnomalyScore ==
  /\ (call.op = "anomalyDetection" /\ call.done) =>
       LET result == call.outcome.value
           den == 2 * Len(call.features)
           capped == IF accumulated(call.features) < 1000 * den
                     THEN accumulated(call.features) ELSE 1000 * den
       IN  /\ result.anomalyScore >= 0 /\ result.anomalyScore <= 1000
           /\ 2 * (den * result.anomalyScore - capped) \in (-den)..den
           /\ result.outOfRangeFeatures = Cardinality(outside(call.features))
           /\ result.prediction = labelled(call.features, call.threshold)
           /\ result.modelInfo.threshold = call.threshold
  /\ ( /\ call.op = "makePrediction" /\ call.done /\ ~call.outcome.threw
       /\ call.request.modelType = "anomaly_detection" ) =>
       call.outcome.value.prediction =
         labelled(call.request.features,
                  IF "options" \in DOMAIN call.request
                  THEN call.request.options.threshold ELSE 500)

-----------------------------------------------------------------------------
(* Properties of makePrediction *)

\* C25: the response of makePrediction has the prediction and the confidence
\* the scorer of the requested kind returns, modelInfo.type the requested
\* kind, modelInfo.version "1.0.0" and modelInfo.accuracy 0.89 for
\* classification, whose scorer reports it, and 0.85 for the other kinds.
C25_ResponseOfScorer ==
  ( /\ call.op = "makePrediction" /\ call.done /\ ~call.outcome.threw ) =>
    LET request == call.request
        result == call.outcome.value
        scored(value) == /\ result.prediction = value.prediction
                         /\ result.confidence = value.confidence
    IN  /\ result.modelInfo.type = request.modelType
        /\ result.modelInfo.version = "1.0.0"
        /\ DOMAIN result.modelInfo = {"type", "version", "accuracy"}
        /\ result.modelInfo.accuracy =
             IF request.modelType = "classification" THEN 890 ELSE 850
        /\ CASE request.modelType = "linear_regression" ->
                   \E noise \in Noises : scored(linearRegression(request.features, noise))
             [] request.modelType = "classification" ->
                   scored(classification(request.features, FALSE))
             [] request.modelType = "clustering" ->
                   scored(clustering(request.features))
             [] request.modelType = "anomaly_detection" ->
                   scored(anomalyDetection(request.features,
                                           IF "options" \in DOMAIN request
                                           THEN request.options.threshold ELSE 500))

\* C25 witness: makePrediction has classified a vector; the accuracy is the
\* scorer's 0.89 and the type is the requested kind, not the scorer's
\* logistic_regression.
C25_AccuracyOfClassification ==
  /\ call.op = "makePrediction" /\ call.done /\ ~call.outcome.threw
  /\ call.request.modelType = "classification"
  /\ call.request.features # <<>>
  /\ call.outcome.value.modelInfo.accuracy = 890
  /\ call.outcome.value.modelInfo.type = "classification"

-----------------------------------------------------------------------------
(* Properties of the statistics *)

\* The number of positions of array that hold v
timesIn(array, v) == Cardinality({i \in DOMAIN array : array[i] = v})

\* The rearrangement of a sequence of numbers in which none is followed by a
\* lower one
inAscendingOrder(array) ==
  CHOOSE s \in [DOMAIN array -> {array[i] : i \in DOMAIN array}] :
    /\ \A i \in DOMAIN s : \A j \in DOMAIN s : i < j => s[i] <= s[j]
    /\ \A i \in DOMAIN array : timesIn(s, array[i]) = timesIn(array, array[i])

\* Every order in which the elements of array can be given
rearrangements(array) ==
  {[i \in DOMAIN array |-> array[f[i]]] :
     f \in {g \in [DOMAIN array -> DOMAIN array] :
              \A i \in DOMAIN array : \E j \in DOMAIN array : g[j] = i}}

\* C26: calculateMedian returns 0 for the empty sequence, the middle element
\* of the sequence in ascending order when the length is odd and the mean of
\* the two middle elements when it is even; every rearrangement of the input
\* has the same median, and the input sequence is as the caller passed it.
C26_MedianOfSorted ==
  ( call.op = "calculateMedian" /\ call.done ) =>
    LET given == call.given
        n == Len(given)
        median == call.outcome.value
        ascent == inAscendingOrder(given)
    IN  /\ ~call.outcome.threw
        /\ n = 0 => median = 0
        /\ n % 2 = 1 => median = ascent[(n + 1) \div 2]
        /\ (n > 0 /\ n % 2 = 0) =>
             2 * median = ascent[n \div 2] + ascent[n \div 2 + 1]
        /\ \A other \in rearrangements(given) : calculateMedian(other) = median
        /\ call.numbers = given

\* C26 witness: the median of [10, 2, -2, 10], which is neither in ascending
\* order nor in the order of its numerals, has been computed as 6.
C26_MeanOfTwoMiddle ==
  /\ call.op = "calculateMedian" /\ call.done
  /\ call.given = <<10000, 2000, -2000, 10000>>
  /\ call.numbers = call.given
  /\ call.outcome.value = 6000

inLocalHour(time, timezoneOffset, h) ==
  \E day \in -2..2 :
    /\ (day * 24 + h) * 60 <= time - timezoneOffset
    /\ time - timezoneOffset < (day * 24 + h + 1) * 60

\* C28: calculateHourlyTrends returns, for every list of timestamped items,
\* the empty one included, 24 buckets, bucket h holding the number of items
\* whose timestamp is in hour h of the local day; the buckets add up to the
\* number of items.
C28_HistogramOfLocalHours ==
  ( call.op = "calculateHourlyTrends" /\ call.done ) =>
    LET hourlyCount == call.outcome.value
    IN  /\ ~call.outcome.threw
        /\ DOMAIN hourlyCount = 0..23
        /\ \A h \in 0..23 :
             hourlyCount[h] =
               Cardinality({i \in DOMAIN call.items :
                              inLocalHour(call.items[i].createdAt,
                                          call.timezoneOffset, h)})
        /\ SumSeq([k \in 1..24 |-> hourlyCount[k - 1]]) = Len(call.items)

\* C28 witness: in a process at UTC+05:30, items created at 23:59, 00:30 and
\* 00:00 UTC have been counted: two in bucket 5, one in bucket 6.
C28_CountedInLocalTime ==
  /\ call.op = "calculateHourlyTrends" /\ call.done
  /\ call.timezoneOffset = -330
  /\ call.items = <<[createdAt |-> 1439], [createdAt |-> 1470], [createdAt |-> 0]>>
  /\ call.outcome.value[5] = 2
  /\ call.outcome.value[6] = 1
  /\ call.outcome.value[23] = 0

\* The data points are in the order of their timestamps
inTimestampOrder(dataPoints) ==
  \A i \in DOMAIN dataPoints : \A j \in DOMAIN dataPoints :
    i < j => dataPoints[i].timestamp <= dataPoints[j].timestamp

\* The sum of the values at the positions from..to of the data points
valuesBetween(dataPoints, from, to) ==
  SumSeq([k \in 1..(to - from + 1) |-> dataPoints[from + k - 1].value])

\* The trend of a change of N / D percent, D # 0, and of a change whose
\* divisor is 0: Infinity is positive, -Infinity and NaN are not.
trendOfChange(N, D) ==
  IF D = 0 THEN IF N > 0 THEN "increasing" ELSE "decreasing"
  ELSE IF Abs(N) < 5 * Abs(D) THEN "stable"
  ELSE IF (N > 0 /\ D > 0) \/ (N < 0 /\ D < 0) THEN "increasing"
  ELSE "decreasing"

\* C29: calculateTrends returns trend insufficient_data and change 0 for fewer
\* than 2 data points; for 2 or more it takes them in the order of their
\* timestamps, the first floor(n/2) as the first window and the rest as the
\* second, and with change% = (secondMean - firstMean) / firstMean * 100 the
\* trend is stable if |change%| < 5, otherwise increasing if change% is
\* positive, otherwise decreasing.
C29_TrendOfTwoWindows ==
  ( call.op = "calculateTrends" /\ call.done ) =>
    LET given == call.given
        n == Len(given)
        result == call.outcome.value
        half == n \div 2
    IN  /\ ~call.outcome.threw
        /\ n < 2 => result = [trend |-> "insufficient_data", change |-> 0]
        /\ n >= 2 =>
             \E ordered \in rearrangements(given) :
               /\ inTimestampOrder(ordered)
               /\ LET first == valuesBetween(ordered, 1, half)
                      second == valuesBetween(ordered, half + 1, n)
                      \* change% = N / D
                      N == (second * half - first * (n - half)) * 100
                      D == first * (n - half)
                  IN  /\ result.trend = trendOfChange(N, D)
                      /\ D # 0 =>
                           /\ result.change \notin {NaN, Infinity, -Infinity}
                           \* change is N / D to the nearest hundredth
                           /\ result.change % 10 = 0
                           /\ 2 * Abs((result.change \div 10) * D - 100 * N) <= Abs(D)

\* C29 witness: of two data points given latest first, 105 then 100, the
\* earlier one has been taken as the first window: the change is 5 %, which
\* is not below 5, and the trend is increasing.
C29_OrderedBeforeHalving ==
  /\ call.op = "calculateTrends" /\ call.done
  /\ call.given = <<[timestamp |-> 20, value |-> 105], [timestamp |-> 10, value |-> 100]>>
  /\ call.outcome.value.trend = "increasing"
  /\ call.outcome.value.change = 5000

====
